---- MODULE Spec2Model ----
(***************************************************************************)
(* State-machine model of the MemoryAllocator repository: the allocator    *)
(* skeleton (MemoryAllocatorImp), the binary buddy allocator, the fast     *)
(* fixed-size free-list pool and the variable-size free-list allocator.    *)
(* Pointers are integer addresses, NULL is address 0.                      *)
(***************************************************************************)
EXTENDS Integers, Sequences, FiniteSets, TLC

VARIABLES
    tree,          \* BinaryBuddyAllocator::tree, as the set of indices whose free bit is set
    bfailed,       \* TRUE once a passert/pfatal of the buddy allocator has fired (process aborted)
    bheld,         \* blocks the caller of the buddy allocator holds: records [ptr, order]
    boverlap,      \* TRUE once allocate has returned bytes of a block the caller still held
    bcall,         \* the last public call on the buddy allocator: [op, arg, ret, pre, index, held]
    fastFreeList,  \* FastFixedSizeResourceAllocator::freeList, the slots from head to tail
    fastHeld,      \* slots the caller of the fast pool holds
    fastCall,      \* the last public call on the fast pool and the one before it
    memory,        \* the MemoryHeader records in the free-list allocator's region, by address
    listHead,      \* FreeList head
    listTail,      \* FreeList tail
    listCount,     \* FreeList count
    listStart,     \* the start address that was passed to FreeListAllocator::init
    listHeld,      \* pointers the caller of the free-list allocator holds
    listCall,      \* the last public call on the free-list allocator
    listScript,    \* how far the calls since init have followed the coalesce scenario
    bitmap,        \* FixedSizeResourceAllocator::bitmap, as the set of indices whose bit is set
    poolHeld,      \* resources the caller of the bitmap pool holds
    poolCall,      \* the last public call on the bitmap pool: [op, arg, ret, pre]
    acall          \* the last call of an aligner: [op, arg, ret, long]

bvars == <<tree, bfailed, bheld, boverlap, bcall>>

fvars == <<fastFreeList, fastHeld, fastCall>>

lvars == <<memory, listHead, listTail, listCount, listStart, listHeld, listCall, listScript>>

pvars == <<bitmap, poolHeld, poolCall>>

avars == <<acall>>

vars == <<tree, bfailed, bheld, boverlap, bcall, fastFreeList, fastHeld, fastCall,
          memory, listHead, listTail, listCount, listStart, listHeld, listCall, listScript,
          bitmap, poolHeld, poolCall, acall>>

NULL == 0

\* The value of an expression that is computed once and then used under a name:
\* The({e(x) : x \in {v}}) is e(v)
The(S) == CHOOSE x \in S : TRUE

\* The record of a public call, before any call has been made
NoCall == [op |-> "none", arg |-> NULL, ret |-> NULL]

\* No aligner has been called on its own
AlignerUnused == acall = NoCall

\* The fast pool as constructed, before init: an empty LinkedList
FastUnused ==
    /\ fastFreeList = <<>>
    /\ fastHeld = {}
    /\ fastCall = NoCall

\* The bitmap pool as constructed, before init
PoolUnused ==
    /\ bitmap = {}
    /\ poolHeld = {}
    /\ poolCall = NoCall

\* The free-list allocator as constructed, before init: an empty FreeList
ListUnused ==
    /\ memory = <<>>
    /\ listHead = NULL
    /\ listTail = NULL
    /\ listCount = 0
    /\ listStart = NULL
    /\ listHeld = {}
    /\ listCall = NoCall
    /\ listScript = [step |-> -1, ptrs |-> <<>>]

(***************************************************************************)
(* Binary buddy allocator                                                  *)
(***************************************************************************)

\* BinaryBuddyAllocator<3, 16> on uint8_t memory[128]
MaxOrder == 3

BasicBlockSize == 16

\* Address of the managed region (this->start)
BuddyStart == 4096

\* Request sizes passed to allocate
BuddySizes == {0, 10, 24, 64, 128, 192}

\* The largest request size of the size-to-order runs
MaxSize == 200

\* Request sizes from one byte up, across the boundaries of the orders 0 to 4
OrderSizes == 1..MaxSize

\* The largest number of blocks a caller holds at a time where the allocator is
\* followed past a double allocation
MaxLive == 4

\* Pointers passed to free by a caller that does not keep to the contract
BuddyPointers ==
    {NULL, BuddyStart - BasicBlockSize, BuddyStart + 7, BuddyStart + 24,
     BuddyStart - 9, BuddyStart + 127, BuddyStart + 135}
        \cup {BuddyStart + k * BasicBlockSize : k \in 0..8}

RECURSIVE PowerOf2(_)
PowerOf2(n) == IF n = 0 THEN 1 ELSE 2 * PowerOf2(n - 1)

\* Position of the most significant set bit of a positive number
RECURSIVE MSBFinder(_)
MSBFinder(n) == IF n <= 1 THEN 0 ELSE 1 + MSBFinder(n \div 2)

\* The smallest power of two that is >= n
NextPowerOf2Finder(n) ==
    IF PowerOf2(MSBFinder(n)) = n THEN n ELSE PowerOf2(MSBFinder(n) + 1)

MaxNumNodes == PowerOf2(MaxOrder + 1) - 1

Order2Depth(order) == MaxOrder - order

Depth2Order(depth) == MaxOrder - depth

Order2Size(order) == PowerOf2(order) * BasicBlockSize

Index2Depth(index) == MSBFinder(index + 1)

Index2Order(index) == Depth2Order(Index2Depth(index))

MaxBlockSize == Order2Size(MaxOrder)

getLeftChild(index) == index * 2 + 1

getRightChild(index) == index * 2 + 2

getParent(index) == (index - 1) \div 2

isRoot(index) == index = 0

isLeaf(index) == getLeftChild(index) >= MaxNumNodes

isLeftChild(index) == index % 2 = 1

\* StaticBitVector: containsBit / getBit / setBit / clearBit on the set of set bits
containsBit(t, index) == index \in t

getBit(t, index) == IF index \in t THEN 1 ELSE 0

setBit(t, index) == t \cup {index}

clearBit(t, index) == t \ {index}

\* StaticBitVector::findLeastSignificantBitIndexWithRange: the least set bit
\* within the closed range [lo, hi], -1 when there is none
findLeastSignificantBitIndexWithRange(t, lo, hi) ==
    LET S == {i \in t : lo <= i /\ i <= hi}
    IN  IF S = {} THEN -1 ELSE CHOOSE i \in S : \A j \in S : i <= j

isFree(t, index) ==
    IF isLeaf(index)
    THEN containsBit(t, index)
    ELSE /\ containsBit(t, index)
         /\ ~containsBit(t, getLeftChild(index))
         /\ ~containsBit(t, getRightChild(index))

isAllocated(t, index) ==
    IF isLeaf(index)
    THEN ~containsBit(t, index)
    ELSE /\ ~containsBit(t, index)
         /\ containsBit(t, getLeftChild(index))
         /\ containsBit(t, getRightChild(index))

isSplit(t, index) ==
    IF isLeaf(index)
    THEN FALSE
    ELSE /\ ~containsBit(t, index)
         /\ getBit(t, getLeftChild(index)) + getBit(t, getRightChild(index)) < 2

getBlockStatus(t, index) ==
    IF isFree(t, index) THEN "Free"
    ELSE IF isAllocated(t, index) THEN "Alloc"
    ELSE IF isSplit(t, index) THEN "Split"
    ELSE "Error"

getBuddyBlock(index) == IF isLeftChild(index) THEN index + 1 ELSE index - 1

\* The result of an internal step: the index it yields, the tree it leaves and
\* ok = FALSE when one of its passert/pfatal fired
Result(index, t, ok) == [index |-> index, tree |-> t, ok |-> ok]

splitBlock(t, index) ==
    IF isLeaf(index) \/ ~isFree(t, index)
    THEN Result(index, t, FALSE)
    ELSE Result(getLeftChild(index),
                setBit(setBit(clearBit(t, index), getLeftChild(index)),
                       getRightChild(index)),
                TRUE)

mergeBlock(t, index) ==
    LET buddy == getBuddyBlock(index)
        parent == getParent(index)
    IN  IF ~isFree(t, buddy) \/ getParent(buddy) # parent
        THEN Result(index, t, FALSE)
        ELSE Result(parent,
                    setBit(clearBit(clearBit(t, index), buddy), getParent(index)),
                    TRUE)

\* A size2Order that counts whole basic blocks only and drops the remainder
size2OrderRoundedDown(size) ==
    MSBFinder(NextPowerOf2Finder(size \div BasicBlockSize))

size2Order(size) ==
    LET numBasicBlocks ==
            (size \div BasicBlockSize) + (IF size % BasicBlockSize # 0 THEN 1 ELSE 0)
    IN  MSBFinder(NextPowerOf2Finder(numBasicBlocks))

\* The amount by which the search loop raises its lower bound after a candidate
\* whose parent is allocated
skipPhantom(lowerBound, index) == lowerBound + (IF isLeftChild(index) THEN 2 ELSE 1)

RECURSIVE getFreeBlockOfOrder(_, _)
RECURSIVE searchRange(_, _, _, _, _)

\* The while loop of getFreeBlockOfOrder: `index` is the local variable of that
\* name, which keeps its last value when the loop condition ends the loop
searchRange(t, order, lowerBound, upperBound, index) ==
    IF ~(lowerBound <= upperBound)
    THEN Result(index, t, TRUE)
    ELSE LET found == findLeastSignificantBitIndexWithRange(t, lowerBound, upperBound)
         IN  IF found < 0
             THEN LET higher == getFreeBlockOfOrder(t, order + 1)
                  IN  IF ~higher.ok \/ higher.index < 0
                      THEN higher
                      ELSE splitBlock(higher.tree, higher.index)
             ELSE IF isRoot(found)
             THEN Result(found, t, TRUE)
             ELSE IF isAllocated(t, getParent(found))
             THEN searchRange(t, order, skipPhantom(lowerBound, found), upperBound, found)
             ELSE Result(found, t, isSplit(t, getParent(found)) /\ isFree(t, found))

getFreeBlockOfOrder(t, order) ==
    IF order > MaxOrder
    THEN Result(-1, t, TRUE)
    ELSE LET depth == Order2Depth(order)
         IN  searchRange(t, order, PowerOf2(depth) - 1,
                         PowerOf2(depth) - 1 + PowerOf2(depth) - 1, -1)

\* BinaryBuddyAllocator::getFreeBlock: ptr is the block's address, NULL if none
buddyGetFreeBlock(t, size) ==
    LET order == size2Order(size)
        r == getFreeBlockOfOrder(t, order)
        stride == r.index - (PowerOf2(Order2Depth(order)) - 1)
    IN  IF ~r.ok \/ r.index < 0
        THEN [ptr |-> NULL, index |-> r.index, tree |-> r.tree, ok |-> r.ok]
        ELSE [ptr |-> BuddyStart + stride * Order2Size(order),
              index |-> r.index, tree |-> r.tree, ok |-> TRUE]

\* A putFreeBlock loop that merges the block with its buddy once and stops
coalesceOnce(t, index) ==
    IF isRoot(index) THEN Result(index, t, TRUE)
    ELSE IF ~isFree(t, getBuddyBlock(index)) THEN Result(index, t, TRUE)
    ELSE mergeBlock(t, index)

RECURSIVE coalesce(_, _)
\* The while (true) loop of putFreeBlock
coalesce(t, index) ==
    IF isRoot(index) THEN Result(index, t, TRUE)
    ELSE IF ~isFree(t, getBuddyBlock(index)) THEN Result(index, t, TRUE)
    ELSE LET m == mergeBlock(t, index)
         IN  IF ~m.ok THEN m ELSE coalesce(m.tree, m.index)

buddyPutFreeBlock(t, index) ==
    IF isRoot(index) THEN Result(index, t, TRUE) ELSE coalesce(t, index)

\* A markBlockFree that sets the block's bit and leaves the children's bits set
buddyMarkBlockFreeKeepingChildren(t, index) == setBit(t, index)

buddyMarkBlockFree(t, index) ==
    IF ~isLeaf(index)
    THEN clearBit(clearBit(setBit(t, index), getLeftChild(index)), getRightChild(index))
    ELSE setBit(t, index)

buddyMarkBlockUsed(t, index) ==
    IF ~isLeaf(index)
    THEN setBit(setBit(clearBit(t, index), getLeftChild(index)), getRightChild(index))
    ELSE clearBit(t, index)

RECURSIVE descend(_, _, _, _, _)
\* The for loop of pointer2Block, from the block `index` of order `order` that
\* starts at `saddr`; index -1 is the NULL result
descend(t, pointer, saddr, index, order) ==
    IF pointer = saddr
    THEN IF isFree(t, index) THEN Result(index, t, FALSE)
         ELSE IF isAllocated(t, index) THEN Result(index, t, TRUE)
         ELSE IF isSplit(t, index)
         THEN descend(t, pointer, saddr, getLeftChild(index), order - 1)
         ELSE Result(index, t, FALSE)
    ELSE IF order = 0 THEN Result(-1, t, TRUE)
    ELSE IF pointer < saddr + Order2Size(order - 1)
    THEN descend(t, pointer, saddr, getLeftChild(index), order - 1)
    ELSE descend(t, pointer, saddr + Order2Size(order - 1), getRightChild(index), order - 1)

\* A pointer2Block that takes a pointer into a basic block for that block's start
buddyPointer2BlockAligningDown(t, pointer) ==
    descend(t, pointer - ((pointer - BuddyStart) % BasicBlockSize), BuddyStart, 0, MaxOrder)

buddyPointer2Block(t, pointer) == descend(t, pointer, BuddyStart, 0, MaxOrder)

\* BinaryBuddyAllocator::init
BuddyInitTree == setBit({}, 0)

\* MemoryAllocatorImp::allocate on the buddy allocator: the pointer returned,
\* the tree left behind and whether the call ran to its end
buddyAllocate(t, size) ==
    IF size = 0 THEN [ret |-> NULL, tree |-> t, ok |-> TRUE, index |-> -1]
    ELSE LET b == buddyGetFreeBlock(t, size)
         IN  IF ~b.ok THEN [ret |-> NULL, tree |-> b.tree, ok |-> FALSE, index |-> -1]
             ELSE IF b.ptr = NULL
             THEN [ret |-> NULL, tree |-> b.tree, ok |-> TRUE, index |-> -1]
             ELSE [ret |-> b.ptr, tree |-> buddyMarkBlockUsed(b.tree, b.index),
                   ok |-> TRUE, index |-> b.index]

\* MemoryAllocatorImp::free on the buddy allocator
buddyFree(t, pointer) ==
    IF pointer = NULL THEN [ret |-> TRUE, tree |-> t, ok |-> TRUE, index |-> -1]
    ELSE LET b == buddyPointer2Block(t, pointer)
         IN  IF ~b.ok THEN [ret |-> FALSE, tree |-> t, ok |-> FALSE, index |-> -1]
             ELSE IF b.index < 0
             THEN [ret |-> FALSE, tree |-> t, ok |-> TRUE, index |-> -1]
             ELSE LET p == buddyPutFreeBlock(buddyMarkBlockFree(t, b.index), b.index)
                  IN  [ret |-> TRUE, tree |-> p.tree, ok |-> p.ok, index |-> b.index]

RECURSIVE loopBounds(_, _, _)
\* The values of range.lowerBound with which the body of the while loop of
\* getFreeBlockOfOrder runs, in the order of the iterations
loopBounds(t, lowerBound, upperBound) ==
    IF ~(lowerBound <= upperBound) THEN <<>>
    ELSE LET found == findLeastSignificantBitIndexWithRange(t, lowerBound, upperBound)
         IN  IF found < 0 THEN <<lowerBound>>
             ELSE IF isRoot(found) THEN <<lowerBound>>
             ELSE IF isAllocated(t, getParent(found))
             THEN <<lowerBound>> \o loopBounds(t, skipPhantom(lowerBound, found), upperBound)
             ELSE <<lowerBound>>

\* The lower bounds of the loop of getFreeBlockOfOrder(order), order <= MaxOrder
orderBounds(t, order) ==
    loopBounds(t, PowerOf2(Order2Depth(order)) - 1,
               PowerOf2(Order2Depth(order)) - 1 + PowerOf2(Order2Depth(order)) - 1)

\* The loop of getFreeBlockOfOrder(order) ends in the branch that found no set
\* bit and calls getFreeBlockOfOrder(order + 1)
searchGoesHigher(t, order) ==
    LET bounds == orderBounds(t, order)
    IN  /\ bounds # <<>>
        /\ findLeastSignificantBitIndexWithRange(
               t, bounds[Len(bounds)],
               PowerOf2(Order2Depth(order)) - 1 + PowerOf2(Order2Depth(order)) - 1) < 0

RECURSIVE searchRecursionsPastMaxOrder(_, _)
\* The calls of a getFreeBlockOfOrder whose guard lets order MaxOrder + 1 pass
searchRecursionsPastMaxOrder(t, order) ==
    IF order > MaxOrder + 1 THEN 0
    ELSE IF order = MaxOrder + 1 \/ searchGoesHigher(t, order)
    THEN 1 + searchRecursionsPastMaxOrder(t, order + 1)
    ELSE 0

RECURSIVE searchRecursions(_, _)
\* How many times getFreeBlockOfOrder(order) and the calls it makes call
\* getFreeBlockOfOrder again
searchRecursions(t, order) ==
    IF order > MaxOrder THEN 0
    ELSE IF searchGoesHigher(t, order) THEN 1 + searchRecursions(t, order + 1)
    ELSE 0

RECURSIVE coalesceLevels(_, _)
\* How many times the while (true) loop of putFreeBlock calls mergeBlock
coalesceLevels(t, index) ==
    IF isRoot(index) THEN 0
    ELSE IF ~isFree(t, getBuddyBlock(index)) THEN 0
    ELSE LET m == mergeBlock(t, index)
         IN  IF ~m.ok THEN 1 ELSE 1 + coalesceLevels(m.tree, m.index)

RECURSIVE descendVisits(_, _, _, _, _)
\* How many tree nodes the for loop of pointer2Block examines
descendVisits(t, pointer, saddr, index, order) ==
    IF pointer = saddr
    THEN IF isFree(t, index) THEN 1
         ELSE IF isAllocated(t, index) THEN 1
         ELSE IF isSplit(t, index)
         THEN 1 + descendVisits(t, pointer, saddr, getLeftChild(index), order - 1)
         ELSE 1
    ELSE IF order = 0 THEN 1
    ELSE IF pointer < saddr + Order2Size(order - 1)
    THEN 1 + descendVisits(t, pointer, saddr, getLeftChild(index), order - 1)
    ELSE 1 + descendVisits(t, pointer, saddr + Order2Size(order - 1),
                           getRightChild(index), order - 1)

\* The address at which the block of tree node `index` starts
Index2Address(index) ==
    BuddyStart
        + (index - (PowerOf2(Index2Depth(index)) - 1)) * Order2Size(Index2Order(index))

\* The calls of the test scenario: allocate 10, 12, 24, 13, 64 and 16 bytes, then
\* free the pointers returned, in the order they were allocated
BuddyScriptCalls ==
    <<[op |-> "allocate", arg |-> 10], [op |-> "allocate", arg |-> 12],
      [op |-> "allocate", arg |-> 24], [op |-> "allocate", arg |-> 13],
      [op |-> "allocate", arg |-> 64], [op |-> "allocate", arg |-> 16],
      [op |-> "free", arg |-> 1], [op |-> "free", arg |-> 2], [op |-> "free", arg |-> 3],
      [op |-> "free", arg |-> 4], [op |-> "free", arg |-> 6]>>

\* The scenario after a call op(arg) that returned ret
NextBuddyScript(script, op, arg, ret) ==
    IF script.step >= 0 /\ script.step < Len(BuddyScriptCalls)
    THEN LET call == BuddyScriptCalls[script.step + 1]
         IN  IF call.op = op /\ op = "allocate" /\ call.arg = arg
             THEN [step |-> script.step + 1, ptrs |-> Append(script.ptrs, ret)]
             ELSE IF call.op = op /\ op = "free" /\ script.ptrs[call.arg] = arg
             THEN [step |-> script.step + 1, ptrs |-> script.ptrs]
             ELSE [step |-> -1, ptrs |-> <<>>]
    ELSE [step |-> -1, ptrs |-> <<>>]

BuddyInit ==
    /\ tree = BuddyInitTree
    /\ bfailed = FALSE
    /\ bheld = {}
    /\ boverlap = FALSE
    /\ bcall = [op |-> "init", arg |-> MaxBlockSize, ret |-> 1, pre |-> {},
                index |-> -1, held |-> TRUE, script |-> [step |-> 0, ptrs |-> <<>>]]
    /\ FastUnused
    /\ ListUnused
    /\ PoolUnused
    /\ AlignerUnused

\* How many blocks of this address and order the caller holds
HeldCount(held, ptr, order) ==
    Cardinality({h \in held : h.ptr = ptr /\ h.order = order})

\* The bytes of a block of the given order at the given address
BlockBytes(ptr, order) == ptr .. (ptr + Order2Size(order) - 1)

\* A call of allocate(size) by the caller. bcall.pre keeps the tree as it was
\* before a successful allocate. The caller keeps every pointer it is given, also
\* one it is given a second time (nth tells them apart). boverlap records that
\* the caller has been given bytes of a block it still held.
BuddyAllocateCall(size) ==
    /\ ~bfailed
    /\ \E r \in {buddyAllocate(tree, size)} : \E order \in {size2Order(size)} :
           /\ tree' = r.tree
           /\ boverlap' = (boverlap \/ (r.ok /\ r.ret # NULL /\ \E h \in bheld :
                               BlockBytes(h.ptr, h.order) \cap BlockBytes(r.ret, order) # {}))
           /\ bfailed' = ~r.ok
           /\ bheld' = IF r.ok /\ r.ret # NULL
                       THEN bheld \cup {[ptr |-> r.ret, order |-> order,
                                         nth |-> HeldCount(bheld, r.ret, order) + 1]}
                       ELSE bheld
           /\ bcall' = [op |-> "allocate", arg |-> size, ret |-> r.ret,
                        pre |-> IF r.ok /\ r.ret # NULL THEN tree ELSE {},
                        index |-> r.index, held |-> TRUE,
                        script |-> NextBuddyScript(bcall.script, "allocate", size, r.ret)]
    /\ UNCHANGED <<fvars, lvars, pvars, avars>>

\* A call of allocate(size) by a caller that, once it has been given bytes of a
\* block it still held, allocates no more: the allocator is followed up to its
\* first double allocation and through the frees after it
BuddyAllocate(size) == ~boverlap /\ BuddyAllocateCall(size)

\* A call of free(h.ptr) by the caller, for a block h it holds
BuddyFreeBlock(h) ==
    /\ ~bfailed
    /\ h.nth = HeldCount(bheld, h.ptr, h.order)
    /\ \E r \in {buddyFree(tree, h.ptr)} :
           /\ tree' = r.tree
           /\ bfailed' = ~r.ok
           /\ bheld' = IF r.ok /\ r.ret THEN bheld \ {h} ELSE bheld
           /\ boverlap' = boverlap
           /\ bcall' = [op |-> "free", arg |-> h.ptr,
                        ret |-> IF r.ret THEN 1 ELSE 0, pre |-> {},
                        index |-> r.index, held |-> TRUE,
                        script |-> NextBuddyScript(bcall.script, "free", h.ptr, r.ret)]
    /\ UNCHANGED <<fvars, lvars, pvars, avars>>

\* A call of free(pointer) by the caller, for a pointer it does not hold
BuddyFreeForeign(pointer) ==
    /\ ~bfailed
    /\ ~\E h \in bheld : h.ptr = pointer
    /\ \E r \in {buddyFree(tree, pointer)} :
           /\ tree' = r.tree
           /\ bfailed' = ~r.ok
           /\ bheld' = bheld
           /\ boverlap' = boverlap
           /\ bcall' = [op |-> "free", arg |-> pointer,
                        ret |-> IF r.ret THEN 1 ELSE 0, pre |-> {},
                        index |-> r.index, held |-> FALSE,
                        script |-> NextBuddyScript(bcall.script, "free", pointer, r.ret)]
    /\ UNCHANGED <<fvars, lvars, pvars, avars>>

\* The allocator has accepted a pointer the caller did not hold: from here on
\* the tree is not the allocator's own doing, and the model follows it no further
BuddyForeignAccepted == bcall.op = "free" /\ ~bcall.held /\ bcall.ret = 1 /\ bcall.arg # NULL

\* The caller allocates
BuddyAllocateAny == \E size \in BuddySizes : BuddyAllocate(size)

\* The caller frees a pointer it got from allocate and has not freed since
BuddyFreeHeld == \E h \in bheld : BuddyFreeBlock(h)

\* The caller frees a pointer it does not hold
BuddyFreeNotHeld == \E pointer \in BuddyPointers : BuddyFreeForeign(pointer)

\* A caller that holds one block at a time allocates any number of bytes up to
\* MaxSize
BuddyAllocateAnySize == bheld = {} /\ \E size \in OrderSizes : BuddyAllocate(size)

\* A caller that holds at most MaxLive blocks allocates, also after it has been
\* given bytes of a block it still held
BuddyAllocateLive ==
    /\ Cardinality(bheld) < MaxLive
    /\ \E size \in BuddySizes : BuddyAllocateCall(size)

BuddyNext == BuddyAllocateAny \/ BuddyFreeHeld

BuddyLiveNext == BuddyAllocateLive \/ BuddyFreeHeld

BuddyOrderNext == BuddyAllocateAnySize \/ BuddyFreeHeld

BuddyMisuseNext ==
    \/ ~BuddyForeignAccepted /\ BuddyAllocateAny
    \/ ~BuddyForeignAccepted /\ BuddyFreeHeld
    \/ ~BuddyForeignAccepted /\ BuddyFreeNotHeld

\* The caller makes the next call of the scenario, an allocate
BuddyScriptAllocate ==
    /\ bcall.script.step >= 0
    /\ bcall.script.step < Len(BuddyScriptCalls)
    /\ BuddyScriptCalls[bcall.script.step + 1].op = "allocate"
    /\ BuddyAllocate(BuddyScriptCalls[bcall.script.step + 1].arg)

BuddyScriptNext == BuddyAllocateAny \/ BuddyFreeHeld \/ BuddyScriptAllocate

\* The buddy allocator used as its contract asks
BuddySpec == BuddyInit /\ [][BuddyNext]_vars

\* The buddy allocator with requests of every size from 1 to MaxSize, one block
\* held at a time
BuddyOrderSpec == BuddyInit /\ [][BuddyOrderNext]_vars

\* The buddy allocator with the calls of the test scenario
BuddyScriptSpec == BuddyInit /\ [][BuddyScriptNext]_vars

\* The buddy allocator with allocate calls and frees of held pointers, followed
\* past a double allocation
BuddyLiveSpec == BuddyInit /\ [][BuddyLiveNext]_vars

\* The buddy allocator with frees of arbitrary pointers
BuddyMisuseSpec == BuddyInit /\ [][BuddyMisuseNext]_vars

(***************************************************************************)
(* Properties of the binary buddy allocator                                *)
(***************************************************************************)

BuddyNodes == 0 .. (MaxNumNodes - 1)

RECURSIVE Ancestors(_)
\* The strict ancestors of a tree node
Ancestors(index) ==
    IF isRoot(index) THEN {} ELSE {getParent(index)} \cup Ancestors(getParent(index))

\* A node that is Free and is no part of an Allocated block
GenuinelyFree(t, index) ==
    isFree(t, index) /\ \A a \in Ancestors(index) : ~isAllocated(t, a)

\* A node that is Allocated at the end of a chain of Split nodes from the root
LiveAllocated(t, index) ==
    isAllocated(t, index) /\ \A a \in Ancestors(index) : isSplit(t, a)

\* No Free block of order K or of a higher order
NoFreeBlockFrom(t, order) ==
    \A i \in BuddyNodes : Index2Order(i) >= order => ~GenuinelyFree(t, i)

\* The bytes of a block a caller holds
HeldBytes(h) == BlockBytes(h.ptr, h.order)

\* C1: the byte ranges [p, p + BasicBlockSize * 2^K) of any two blocks held by
\* callers do not overlap.
C1_HeldBlocksDisjoint ==
    \A h1 \in bheld : \A h2 \in bheld :
        h1 # h2 => HeldBytes(h1) \cap HeldBytes(h2) = {}

\* C2: allocate(size) returns NULL whenever the tree before the call holds no
\* Free block of the order of size or of a higher order.
C2_NullWhenNoFreeBlock ==
    [][(bcall'.op = "allocate" /\ bcall'.arg # 0
            /\ NoFreeBlockFrom(tree, size2Order(bcall'.arg)))
        => (bcall'.ret = NULL /\ ~bfailed')]_vars

\* C3: free(p) of a non-null p that is not the start address of a currently
\* Allocated block returns false and leaves every bit of the tree unchanged.
C3_ForeignFreeRejected ==
    [][(bcall'.op = "free" /\ bcall'.arg # NULL
            /\ ~\E i \in BuddyNodes :
                    LiveAllocated(tree, i) /\ Index2Address(i) = bcall'.arg)
        => (bcall'.ret = 0 /\ ~bfailed' /\ tree' = tree)]_vars

\* C4: once every pointer allocate returned has been freed, the root is Free
\* and every other bit of the tree is clear, as right after init.
C4_AllFreedIsInit ==
    (bheld = {} /\ ~bfailed) => tree = BuddyInitTree

\* C6: a successful p = allocate(size) followed at once by free(p) leaves the
\* tree as it was before the allocate.
C6_AllocateFreeRoundTrip ==
    [][(bcall.op = "allocate" /\ bcall.ret # NULL
            /\ bcall'.op = "free" /\ bcall'.arg = bcall.ret)
        => (tree' = bcall.pre /\ bcall'.ret = 1 /\ ~bfailed')]_vars

\* C25: with MaxOrder = 3 and BasicBlockSize = 16 on a 128-byte region, from the
\* initial state, allocate 10 returns offset 0 (index 7, with 0, 1, 3 Split and
\* 8, 4, 2 Free), allocate 12 returns offset 16 (index 8), allocate 24 returns
\* offset 32 (index 4), allocate 13 returns offset 64 (index 11), allocate 64
\* returns NONE, allocate 16 returns offset 80 (index 12); freeing all five in
\* the order allocated ends with only bit 0 set.
C25_BuddyScenario ==
    LET step == bcall.script.step
        Returned(offset, index) == bcall.ret = BuddyStart + offset /\ bcall.index = index
    IN  /\ step = 1 => /\ Returned(0, 7)
                       /\ isAllocated(tree, 7)
                       /\ isSplit(tree, 0) /\ isSplit(tree, 1) /\ isSplit(tree, 3)
                       /\ isFree(tree, 8) /\ isFree(tree, 4) /\ isFree(tree, 2)
        /\ step = 2 => Returned(16, 8)
        /\ step = 3 => Returned(32, 4)
        /\ step = 4 => Returned(64, 11)
        /\ step = 5 => bcall.ret = NULL
        /\ step = 6 => Returned(80, 12)
        /\ step \in 7 .. 11 => (bcall.op = "free" /\ bcall.ret = 1)
        /\ step \in 1 .. 11 => (~bfailed /\ ~boverlap)
        /\ step = 11 => (tree = {0} /\ bheld = {})

\* The scenario has been run to its end
C25_Witness == bcall.script.step = 11 /\ bcall.op = "free" /\ bcall.arg = BuddyStart + 80

\* The smallest order K with BasicBlockSize * 2^K >= n
SmallestOrder(n) ==
    CHOOSE K \in 0..(MaxOrder + 3) :
        /\ BasicBlockSize * PowerOf2(K) >= n
        /\ \A J \in 0..(K - 1) : BasicBlockSize * PowerOf2(J) < n

\* The orders the test expects of size2Order
ExpectedOrders == {<<10, 0>>, <<15, 0>>, <<24, 1>>, <<30, 1>>, <<45, 2>>, <<65, 3>>, <<192, 4>>}

\* C26: for every size n >= 1 passed to allocate, size2Order(n) is the smallest
\* order K with BasicBlockSize * 2^K >= n (10 and 15 give 0, 24 and 30 give 1,
\* 45 gives 2, 65 gives 3, 192 gives 4); a block handed out has that order, and
\* a request whose order exceeds MaxOrder returns NULL
C26_SizeToOrder ==
    (bcall.op = "allocate" /\ bcall.arg >= 1) =>
        /\ size2Order(bcall.arg) = SmallestOrder(bcall.arg)
        /\ \A e \in ExpectedOrders : bcall.arg = e[1] => size2Order(bcall.arg) = e[2]
        /\ size2Order(bcall.arg) > MaxOrder => bcall.ret = NULL
        /\ (~bfailed /\ bcall.ret # NULL) =>
               Index2Order(bcall.index) = SmallestOrder(bcall.arg)

\* A 192-byte request, of order 4, is refused while the whole region is free
C26_Witness ==
    /\ bcall.op = "allocate"
    /\ bcall.arg = 192
    /\ bcall.ret = NULL
    /\ tree = BuddyInitTree
    /\ bheld = {}

\* The pointer is not a whole number of basic blocks from the region's start
Unaligned(pointer) == (pointer - BuddyStart) % BasicBlockSize # 0

\* C27: free(region_start + 7), and free of any address that is not a multiple
\* of BasicBlockSize from region_start, returns false and leaves every bit of
\* the tree unchanged.
C27_UnalignedFreeRejected ==
    [][(bcall'.op = "free" /\ bcall'.arg # NULL /\ Unaligned(bcall'.arg))
        => (bcall'.ret = 0 /\ ~bfailed' /\ tree' = tree)]_vars

\* free(region_start + 7) was refused while the caller holds the basic block
\* that starts at region_start
C27_Witness ==
    /\ bcall.op = "free"
    /\ bcall.arg = BuddyStart + 7
    /\ bcall.ret = 0
    /\ ~bfailed
    /\ \E h \in bheld : h.ptr = BuddyStart /\ h.order = 0

\* The tree node of a block the caller holds
HeldIndex(h) ==
    PowerOf2(Order2Depth(h.order)) - 1 + (h.ptr - BuddyStart) \div Order2Size(h.order)

\* C28: for every block held by a caller, its tree node has status Allocated and
\* every strict ancestor of that node has status Split.
C28_HeldBlocksAllocatedUnderSplits ==
    \A h \in bheld :
        /\ isAllocated(tree, HeldIndex(h))
        /\ \A a \in Ancestors(HeldIndex(h)) : isSplit(tree, a)

\* A node that stands for a block: every strict ancestor of it is Split
IsBlock(t, index) == \A a \in Ancestors(index) : isSplit(t, a)

\* C29: no single allocate or free call changes the status of any node, read
\* from its own bit and its children's bits, directly from Allocated to Split or
\* directly from Split to Allocated. Stated for the nodes that stand for a block
\* before and after the call; the bits below a Free or Allocated block read as
\* Split or Allocated without being blocks.
C29_NoDirectAllocatedSplitChange ==
    [][\A i \in BuddyNodes :
           (IsBlock(tree, i) /\ IsBlock(tree', i)) =>
               /\ ~(isAllocated(tree, i) /\ isSplit(tree', i))
               /\ ~(isSplit(tree, i) /\ isAllocated(tree', i))]_vars

\* The nodes below a tree node
Descendants(index) == {d \in BuddyNodes : index \in Ancestors(d)}

\* C30 as stated: for every node whose status is Free, no descendant of it has
\* status Allocated under the status encoding (own bit clear and both children's
\* bits set; for a leaf: own bit clear).
C30_NoAllocatedUnderFree ==
    \A i \in BuddyNodes :
        isFree(tree, i) => \A d \in Descendants(i) : ~isAllocated(tree, d)

\* C30 amended: for every node whose status is Free, no descendant of it that is
\* not a leaf has status Allocated under the status encoding (own bit clear and
\* both children's bits set); the leaves below a Free node have their bits clear
\* and so read Allocated.
C30_NoAllocatedInnerNodeUnderFree ==
    \A i \in BuddyNodes :
        isFree(tree, i) =>
            \A d \in Descendants(i) : ~isLeaf(d) => ~isAllocated(tree, d)

\* A free left the order 2 block at node 1 Free, above the nodes 3 and 4 and
\* their leaves, while the caller still holds another block
C30_Witness ==
    /\ bcall.op = "free"
    /\ bcall.ret = 1
    /\ isFree(tree, 1)
    /\ bheld # {}
    /\ ~boverlap
    /\ ~bfailed

\* A Free node that stands for a block
FreeBlock(t, index) == isFree(t, index) /\ IsBlock(t, index)

\* The Free blocks of an order
FreeBlocksOfOrder(t, order) ==
    {i \in BuddyNodes : Index2Order(i) = order /\ FreeBlock(t, i)}

RECURSIVE LeftDescendant(_, _)
\* The node `levels` below a node along left children
LeftDescendant(index, levels) ==
    IF levels = 0 THEN index ELSE LeftDescendant(getLeftChild(index), levels - 1)

RECURSIVE SplitDown(_, _, _)
\* The tree after the block at `index` has been split `levels` times, each time
\* going on with the left child
SplitDown(t, index, levels) ==
    IF levels = 0 THEN t
    ELSE SplitDown(setBit(setBit(clearBit(t, index), getLeftChild(index)),
                          getRightChild(index)),
                   getLeftChild(index), levels - 1)

\* The right siblings of the nodes on the way down along left children
RightSiblings(index, levels) ==
    {getRightChild(LeftDescendant(index, n)) : n \in 0 .. (levels - 1)}

\* A step of allocate for order K takes the lowest-indexed Free block of order K
\* or, when there is none, the leftmost descendant of a Free block of the
\* nearest higher order that has one
AllocateTakesLowestOrSplits ==
    (bcall'.op = "allocate" /\ bcall'.arg >= 1 /\ size2Order(bcall'.arg) <= MaxOrder)
    => LET K == size2Order(bcall'.arg)
           higher == {J \in K .. MaxOrder : FreeBlocksOfOrder(tree, J) # {}}
       IN  higher # {} =>
               LET J == CHOOSE j \in higher : \A other \in higher : j <= other
               IN  \E source \in FreeBlocksOfOrder(tree, J) :
                       /\ J = K => \A other \in FreeBlocksOfOrder(tree, K) :
                                       source <= other
                       /\ ~bfailed'
                       /\ bcall'.index = LeftDescendant(source, J - K)
                       /\ bcall'.ret = Index2Address(bcall'.index)
                       /\ tree' = buddyMarkBlockUsed(SplitDown(tree, source, J - K),
                                                     bcall'.index)
                       /\ \A sibling \in RightSiblings(source, J - K) :
                              isFree(tree', sibling)

\* C33: allocate for order K returns the lowest-indexed Free block of order K
\* when one exists and splits nothing; when none exists and a higher order has a
\* Free block, it splits a Free block of the nearest such order, going down
\* along left children: each right sibling made on the way is left Free and the
\* block returned is the leftmost descendant of order K.
C33_LowestFreeOrLeftmostSplit == [][AllocateTakesLowestOrSplits]_vars

\* Each element of a sequence of numbers is larger than the one before it
StrictlyIncreasing(s) == \A n \in 1 .. (Len(s) - 1) : s[n] < s[n + 1]

\* The loops and the recursion of a call stay within their bounds
CallStaysWithinBounds ==
    /\ (bcall'.op = "allocate" /\ bcall'.arg >= 1) =>
           /\ searchRecursions(tree, size2Order(bcall'.arg)) <= MaxOrder + 1
           /\ \A order \in size2Order(bcall'.arg) .. MaxOrder :
                  /\ StrictlyIncreasing(orderBounds(tree, order))
                  /\ Len(orderBounds(tree, order)) <= PowerOf2(Order2Depth(order))
    /\ (bcall'.op = "free" /\ bcall'.arg # NULL) =>
           /\ descendVisits(tree, bcall'.arg, BuddyStart, 0, MaxOrder) <= MaxOrder + 1
           /\ bcall'.index >= 0 =>
                  coalesceLevels(buddyMarkBlockFree(tree, bcall'.index), bcall'.index)
                      <= MaxOrder

\* C36: every allocate and every free call terminates, in every reachable state
\* and for every argument: the free-block search calls itself at most
\* MaxOrder + 1 times, each retry of its loop runs with a larger lower bound than
\* the one before, the coalesce loop merges at most MaxOrder times and the
\* pointer descent examines at most MaxOrder + 1 nodes.
C36_CallsTerminate == [][CallStaysWithinBounds]_vars

\* An allocate found nothing after it had gone through every order up to
\* MaxOrder + 1, and the loop of one of these orders ran more than once
C36_Witness ==
    /\ bcall.op = "allocate"
    /\ bcall.arg >= 1
    /\ bcall.ret = NULL
    /\ ~bfailed
    /\ size2Order(bcall.arg) <= MaxOrder
    /\ searchRecursions(tree, size2Order(bcall.arg)) = MaxOrder + 1
    /\ \E order \in 0 .. MaxOrder : Len(orderBounds(tree, order)) >= 2

\* How many of the three states Free, Allocated and Split a node is in
StatusCount(t, index) ==
    (IF isFree(t, index) THEN 1 ELSE 0)
        + (IF isAllocated(t, index) THEN 1 ELSE 0)
        + (IF isSplit(t, index) THEN 1 ELSE 0)

\* C37: in every state reachable by allocate calls and frees of live pointers,
\* every node is in exactly one of the three states Free, Allocated and Split:
\* no node has its own bit set while one of its children's bits is set, and
\* getBlockStatus never yields Error.
C37_NoErrorStatus ==
    \A i \in BuddyNodes :
        /\ StatusCount(tree, i) = 1
        /\ getBlockStatus(tree, i) # "Error"
        /\ ~isLeaf(i) =>
               ~(containsBit(tree, i)
                   /\ (containsBit(tree, getLeftChild(i))
                          \/ containsBit(tree, getRightChild(i))))

\* A call runs to its end with no assertion failed, and a block that the search
\* of an allocate call took from the tree as it found it, other than the root,
\* is Free below a Split parent
CallPassesAssertions ==
    /\ ~bfailed'
    /\ (bcall'.op = "allocate" /\ bcall'.arg >= 1) =>
           \A r \in {getFreeBlockOfOrder(tree, size2Order(bcall'.arg))} :
               (r.ok /\ r.index > 0 /\ r.tree = tree) =>
                   (isSplit(tree, getParent(r.index)) /\ isFree(tree, r.index))

\* C38: in every sequence of allocate calls and frees of currently held
\* pointers, no internal assertion fails: splitBlock is applied only to a Free
\* node that is no leaf, mergeBlock only when the buddy is Free, a candidate
\* returned by the search that is not the root has a Split parent and is itself
\* Free, and the pointer descent never finds a Free node at the pointer's
\* address.
C38_NoAssertionFails == [][CallPassesAssertions]_vars

\* The bytes of the block of a tree node
NodeBytes(index) == BlockBytes(Index2Address(index), Index2Order(index))

\* A free of a pointer the caller holds is accepted, finds the node of the block
\* held and leaves the block's bytes within a Free node
FreeOfHeldFindsItsBlock ==
    (bcall'.op = "free" /\ bcall'.held /\ bcall'.arg # NULL) =>
        \A h \in bheld :
            h.ptr = bcall'.arg =>
                /\ bcall'.ret = 1
                /\ ~bfailed'
                /\ bcall'.index = HeldIndex(h)
                /\ \E n \in BuddyNodes :
                       /\ isFree(tree', n)
                       /\ HeldBytes(h) \subseteq NodeBytes(n)

\* C39: for every block a caller holds, returned by allocate at address p with
\* tree index i, free(p) returns true, the pointer descent resolves p to index i
\* and to no ancestor or descendant that starts at the same address, and after
\* the call the bytes of the block lie within a Free node.
C39_FreeOfHeldBlock == [][FreeOfHeldFindsItsBlock]_vars

\* A free of the pointer that the call before it has freed, by a caller that was
\* never given bytes of a block it held, is refused and changes nothing
SecondFreeRejected ==
    (/\ bcall.op = "free" /\ bcall.held /\ bcall.ret = 1 /\ bcall.arg # NULL
     /\ ~boverlap
     /\ bcall'.op = "free" /\ ~bcall'.held /\ bcall'.arg = bcall.arg)
    => (bcall'.ret = 0 /\ ~bfailed' /\ tree' = tree)

\* C40: free(p) called a second time on a pointer that was already freed, with
\* no allocate in between, returns false and leaves every bit of the tree
\* unchanged; it trips no assertion and neither marks nor merges any block.
C40_DoubleFreeRejected == [][SecondFreeRejected]_vars

(***************************************************************************)
(* Fast fixed-size free-list pool                                          *)
(***************************************************************************)

\* sizeof(Resource): FastFixedSizeResourceAllocator<Tuple>, a Tuple of four uint32_t
ResourceSize == 16

\* Number of resources in the region passed to init
NumResources == 4

\* Address of the region passed to init
FastStart == 8192

\* Request sizes passed to allocate
FastSizes == {0, 8, ResourceSize}

\* LinkedList::enqueue: the item becomes the tail
enqueue(list, item) == Append(list, item)

\* LinkedList::dequeue: removes and yields the head, NULL when the list is empty
dequeue(list) ==
    IF list = <<>> THEN [item |-> NULL, list |-> list]
    ELSE [item |-> Head(list), list |-> Tail(list)]

NullAligner(size) == size

\* A getFreeBlock that takes the tail of the list
fastGetFreeBlockFromTail(list, size) ==
    IF size # ResourceSize \/ list = <<>> THEN [item |-> NULL, list |-> list]
    ELSE [item |-> list[Len(list)], list |-> SubSeq(list, 1, Len(list) - 1)]

\* A getFreeBlock that takes the head off the list before it looks at the size
fastGetFreeBlockDequeueFirst(list, size) ==
    IF size # ResourceSize THEN [item |-> NULL, list |-> dequeue(list).list]
    ELSE dequeue(list)

\* FastFixedSizeResourceAllocator::getFreeBlock
fastGetFreeBlock(list, size) ==
    IF size # ResourceSize THEN [item |-> NULL, list |-> list]
    ELSE dequeue(list)

\* A putFreeBlock that pushes the block in front of the head
fastPutFreeBlockAtHead(list, block) == <<block>> \o list

\* FastFixedSizeResourceAllocator::putFreeBlock
fastPutFreeBlock(list, block) == enqueue(list, block)

\* FastFixedSizeResourceAllocator::markBlockFree, markBlockUsed: nothing to do
fastMarkBlockFree(list, block) == list

fastMarkBlockUsed(list, block) == list

\* FastFixedSizeResourceAllocator::pointer2Block
fastPointer2Block(pointer) == pointer

\* An init loop that runs once more, for the address at the end of the region
RECURSIVE fastInitLoopToEnd(_, _, _)
fastInitLoopToEnd(list, current, end) ==
    IF current <= end
    THEN fastInitLoopToEnd(enqueue(list, current), current + ResourceSize, end)
    ELSE list

\* The while loop of FastFixedSizeResourceAllocator::init
RECURSIVE fastInitLoop(_, _, _)
fastInitLoop(list, current, end) ==
    IF current < end
    THEN fastInitLoop(enqueue(list, current), current + ResourceSize, end)
    ELSE list

\* FastFixedSizeResourceAllocator::init: ok = FALSE is the `false` result
fastInit(start, limit) ==
    IF limit % ResourceSize # 0 THEN [ok |-> FALSE, list |-> <<>>]
    ELSE [ok |-> TRUE, list |-> fastInitLoop(<<>>, start, start + limit)]

\* MemoryAllocatorImp::allocate on the fast pool
fastAllocate(list, size) ==
    IF size = 0 THEN [ret |-> NULL, list |-> list]
    ELSE LET b == fastGetFreeBlock(list, NullAligner(size))
         IN  IF b.item = NULL THEN [ret |-> NULL, list |-> b.list]
             ELSE [ret |-> b.item, list |-> fastMarkBlockUsed(b.list, b.item)]

\* MemoryAllocatorImp::free on the fast pool
fastFree(list, pointer) ==
    IF pointer = NULL THEN [ret |-> TRUE, list |-> list]
    ELSE LET block == fastPointer2Block(pointer)
         IN  IF block = NULL THEN [ret |-> FALSE, list |-> list]
             ELSE [ret |-> TRUE,
                   list |-> fastPutFreeBlock(fastMarkBlockFree(list, block), block)]

\* What a call record keeps of the call before it
FastBefore(call) == [op |-> call.op, arg |-> call.arg, ret |-> call.ret]

FastInit ==
    /\ fastFreeList = fastInit(FastStart, NumResources * ResourceSize).list
    /\ fastHeld = {}
    /\ fastCall = [op |-> "init", arg |-> NumResources * ResourceSize, ret |-> 1,
                   pre |-> <<>>, before |-> NoCall, prepre |-> <<>>]
    /\ tree = {}
    /\ bfailed = FALSE
    /\ bheld = {}
    /\ boverlap = FALSE
    /\ bcall = NoCall
    /\ AlignerUnused
    /\ ListUnused
    /\ PoolUnused

\* A call of allocate(size) by the caller: pre is the free list before the call,
\* before and prepre are the call before this one and the free list before that
FastAllocate(size) ==
    /\ \E r \in {fastAllocate(fastFreeList, size)} :
           /\ fastFreeList' = r.list
           /\ fastHeld' = IF r.ret # NULL THEN fastHeld \cup {r.ret} ELSE fastHeld
           /\ fastCall' = [op |-> "allocate", arg |-> size, ret |-> r.ret,
                           pre |-> fastFreeList, before |-> FastBefore(fastCall),
                           prepre |-> fastCall.pre]
    /\ UNCHANGED <<bvars, lvars, pvars, avars>>

\* A call of free(pointer) by the caller, for a resource it holds
FastFree(pointer) ==
    /\ \E r \in {fastFree(fastFreeList, pointer)} :
           /\ fastFreeList' = r.list
           /\ fastHeld' = IF r.ret THEN fastHeld \ {pointer} ELSE fastHeld
           /\ fastCall' = [op |-> "free", arg |-> pointer,
                           ret |-> IF r.ret THEN 1 ELSE 0,
                           pre |-> fastFreeList, before |-> FastBefore(fastCall),
                           prepre |-> fastCall.pre]
    /\ UNCHANGED <<bvars, lvars, pvars, avars>>

FastAllocateAny == \E size \in FastSizes : FastAllocate(size)

FastFreeHeld == \E pointer \in fastHeld : FastFree(pointer)

FastNext == FastAllocateAny \/ FastFreeHeld

\* The fast pool used as its contract asks
FastSpec == FastInit /\ [][FastNext]_vars

(***************************************************************************)
(* Properties of the fast fixed-size pool                                  *)
(***************************************************************************)

\* The last call freed the pointer that the call right before it, a successful
\* allocate, had returned
FastRoundTrip ==
    /\ fastCall.op = "free"
    /\ fastCall.before.op = "allocate"
    /\ fastCall.before.ret # NULL
    /\ fastCall.arg = fastCall.before.ret

\* C5 as stated: after a successful p = allocate(slot_size) followed at once by
\* free(p), the free list from head to tail is the one before the allocate.
C5_RoundTripRestoresList == FastRoundTrip => fastFreeList = fastCall.prepre

\* C5, amended: after a successful p = allocate(slot_size) followed at once by
\* free(p), the free list is the one before the allocate rotated by one slot: p,
\* which was its head, is now its tail, and the other slots keep their order.
C5_RoundTripRotatesList ==
    FastRoundTrip =>
        /\ fastCall.ret = 1
        /\ fastCall.prepre # <<>>
        /\ fastCall.arg = Head(fastCall.prepre)
        /\ fastFreeList = Append(Tail(fastCall.prepre), fastCall.arg)

\* A round trip on a pool with more than one free resource
C5_Witness == FastRoundTrip /\ Len(fastCall.prepre) >= 2 /\ fastFreeList # fastCall.prepre

\* The address of slot `index` of the fast pool
FastSlot(index) == FastStart + index * ResourceSize

\* The slots of the fast pool in ascending address order
FastSlotsInOrder == [i \in 1 .. NumResources |-> FastSlot(i - 1)]

\* C22: slots are handed out in first-in-first-out order of their insertion into
\* the free list: after init the list holds the slots in ascending address
\* order, a freed slot goes to the tail, and allocate always returns the current
\* head; with all slots allocated, freeing slot 0 then the last slot makes the
\* next two allocations return slot 0 then the last slot.
C22_FirstInFirstOut ==
    /\ fastCall.op = "init" => fastFreeList = FastSlotsInOrder
    /\ (fastCall.op = "allocate" /\ fastCall.arg = ResourceSize /\ fastCall.pre # <<>>) =>
           (fastCall.ret = Head(fastCall.pre) /\ fastFreeList = Tail(fastCall.pre))
    /\ (fastCall.op = "free" /\ fastCall.arg # NULL) =>
           (fastCall.ret = 1 /\ fastFreeList = Append(fastCall.pre, fastCall.arg))
    /\ (/\ fastCall.op = "allocate" /\ fastCall.arg = ResourceSize
        /\ fastCall.before.op = "allocate" /\ fastCall.before.arg = ResourceSize
        /\ fastCall.prepre = <<FastSlot(0), FastSlot(NumResources - 1)>>) =>
           /\ fastCall.before.ret = FastSlot(0)
           /\ fastCall.ret = FastSlot(NumResources - 1)

\* Slot 0 and then the last slot were freed into an empty list and the next two
\* allocations have returned them
C22_Witness ==
    /\ fastCall.op = "allocate"
    /\ fastCall.before.op = "allocate"
    /\ fastCall.prepre = <<FastSlot(0), FastSlot(NumResources - 1)>>
    /\ fastCall.ret = FastSlot(NumResources - 1)
    /\ fastFreeList = <<>>

\* The slots on the free list
FastFreeSlots == {fastFreeList[i] : i \in 1 .. Len(fastFreeList)}

\* C23: in every state reachable from a successful init by allocate calls and
\* frees of live slot pointers, the free list contains exactly the currently
\* free slots, each once, so freelist.length + allocated_count = N; allocate
\* returns NONE exactly when the list is empty.
C23_FreeListIsFreeSlots ==
    /\ FastFreeSlots = {FastSlot(i) : i \in 0 .. NumResources - 1} \ fastHeld
    /\ Cardinality(FastFreeSlots) = Len(fastFreeList)
    /\ Len(fastFreeList) + Cardinality(fastHeld) = NumResources
    /\ (fastCall.op = "allocate" /\ fastCall.arg = ResourceSize) =>
           ((fastCall.ret = NULL) <=> (fastCall.pre = <<>>))

\* An allocate from the empty list
C23_Witness ==
    /\ fastCall.op = "allocate"
    /\ fastCall.arg = ResourceSize
    /\ fastCall.pre = <<>>
    /\ fastCall.ret = NULL
    /\ Cardinality(fastHeld) = NumResources

(***************************************************************************)
(* Fixed-size bitmap pool                                                  *)
(***************************************************************************)

\* sizeof(Resource): FixedSizeResourceAllocator<Point, ...>, a Point of two uint32_t
PoolResourceSize == 8

\* NumResources of the bitmap pool
PoolNumResources == 6

\* Bits in a BitVectorStorageUnit: uint8_t in the test
StorageUnitBits == 8

\* Address of the region passed to init
PoolStart == 12288

\* Request sizes passed to allocate
PoolSizes == {0, 4, PoolResourceSize}

\* The bits that the storage units of a StaticBitVector of `n` bits hold
BitCapacity(n) == ((n + StorageUnitBits - 1) \div StorageUnitBits) * StorageUnitBits

\* StaticBitVector::initWithOnes: the `n` bits of the vector are set, the bits
\* that pad the last storage unit are clear
initWithOnes(n) == 0 .. n - 1

\* StaticBitVector::findLeastSignificantBitIndex: -1 if no bit is set
findLeastSignificantBitIndex(v) ==
    IF v = {} THEN -1 ELSE CHOOSE i \in v : \A j \in v : i <= j

\* A getFreeBlock that returns the slot of the most significant set bit
poolGetFreeBlockHighest(v, size) ==
    IF size # PoolResourceSize THEN NULL
    ELSE IF v = {} THEN NULL
    ELSE PoolStart + (CHOOSE i \in v : \A j \in v : j <= i) * PoolResourceSize

\* A getFreeBlock that does not compare the size with the resource size
poolGetFreeBlockAnySize(v, size) ==
    The({IF index < 0 THEN NULL ELSE PoolStart + index * PoolResourceSize :
            index \in {findLeastSignificantBitIndex(v)}})

\* FixedSizeResourceAllocator::getFreeBlock: the block found, NULL if none
poolGetFreeBlock(v, size) ==
    IF size # PoolResourceSize THEN NULL
    ELSE The({IF index < 0 THEN NULL ELSE PoolStart + index * PoolResourceSize :
                 index \in {findLeastSignificantBitIndex(v)}})

\* FixedSizeResourceAllocator::putFreeBlock: nothing to do
poolPutFreeBlock(v, block) == v

\* reinterpret_cast<Resource*>(block) - this->resources
poolIndex(block) == (block - PoolStart) \div PoolResourceSize

\* FixedSizeResourceAllocator::markBlockFree
poolMarkBlockFree(v, block) == setBit(v, poolIndex(block))

\* A markBlockUsed that leaves the bit of the block set
poolMarkBlockUsedKeepingBit(v, block) == v

\* FixedSizeResourceAllocator::markBlockUsed
poolMarkBlockUsed(v, block) == clearBit(v, poolIndex(block))

\* FixedSizeResourceAllocator::pointer2Block
poolPointer2Block(pointer) == pointer

\* FixedSizeResourceAllocator::init: ok = FALSE is the `false` result
poolInit(start, limit) ==
    IF limit % PoolResourceSize # 0 THEN [ok |-> FALSE, bitmap |-> {}]
    ELSE IF limit \div PoolResourceSize < PoolNumResources THEN [ok |-> FALSE, bitmap |-> {}]
    ELSE [ok |-> TRUE, bitmap |-> initWithOnes(PoolNumResources)]

\* MemoryAllocatorImp::allocate on the bitmap pool
poolAllocate(v, size) ==
    IF size = 0 THEN [ret |-> NULL, bitmap |-> v]
    ELSE The({IF block = NULL THEN [ret |-> NULL, bitmap |-> v]
              ELSE [ret |-> block, bitmap |-> poolMarkBlockUsed(v, block)] :
                 block \in {poolGetFreeBlock(v, NullAligner(size))}})

\* A free on the bitmap pool without the guard for nullptr
poolFreeWithoutGuard(v, pointer) ==
    The({IF block = NULL THEN [ret |-> FALSE, bitmap |-> v]
         ELSE [ret |-> TRUE,
               bitmap |-> poolPutFreeBlock(poolMarkBlockFree(v, block), block)] :
            block \in {poolPointer2Block(pointer)}})

\* MemoryAllocatorImp::free on the bitmap pool
poolFree(v, pointer) ==
    IF pointer = NULL THEN [ret |-> TRUE, bitmap |-> v]
    ELSE The({IF block = NULL THEN [ret |-> FALSE, bitmap |-> v]
              ELSE [ret |-> TRUE,
                    bitmap |-> poolPutFreeBlock(poolMarkBlockFree(v, block), block)] :
                 block \in {poolPointer2Block(pointer)}})

PoolInit ==
    /\ bitmap = poolInit(PoolStart, PoolNumResources * PoolResourceSize).bitmap
    /\ poolHeld = {}
    /\ poolCall = [op |-> "init", arg |-> PoolNumResources * PoolResourceSize, ret |-> 1,
                   pre |-> {}]
    /\ tree = {}
    /\ bfailed = FALSE
    /\ bheld = {}
    /\ boverlap = FALSE
    /\ bcall = NoCall
    /\ AlignerUnused
    /\ FastUnused
    /\ ListUnused

\* A call of allocate(size) by the caller: pre is the bitmap before the call
PoolAllocate(size) ==
    /\ \E r \in {poolAllocate(bitmap, size)} :
           /\ bitmap' = r.bitmap
           /\ poolHeld' = IF r.ret # NULL THEN poolHeld \cup {r.ret} ELSE poolHeld
           /\ poolCall' = [op |-> "allocate", arg |-> size, ret |-> r.ret, pre |-> bitmap]
    /\ UNCHANGED <<bvars, fvars, lvars, avars>>

\* A call of free(pointer) by the caller
PoolFree(pointer) ==
    /\ \E r \in {poolFree(bitmap, pointer)} :
           /\ bitmap' = r.bitmap
           /\ poolHeld' = IF r.ret THEN poolHeld \ {pointer} ELSE poolHeld
           /\ poolCall' = [op |-> "free", arg |-> pointer, ret |-> IF r.ret THEN 1 ELSE 0,
                           pre |-> bitmap]
    /\ UNCHANGED <<bvars, fvars, lvars, avars>>

PoolAllocateAny == \E size \in PoolSizes : PoolAllocate(size)

PoolFreeHeld == \E pointer \in poolHeld : PoolFree(pointer)

PoolNext == PoolAllocateAny \/ PoolFreeHeld

\* The bitmap pool used as its contract asks
PoolSpec == PoolInit /\ [][PoolNext]_vars

(***************************************************************************)
(* Properties of the bitmap pool                                           *)
(***************************************************************************)

\* The address of slot `index`
SlotAddress(index) == PoolStart + index * PoolResourceSize

\* C20: in every state reachable from init by allocate calls and frees of live
\* slot pointers, for every slot index i < N, bit i is set if and only if slot i
\* is free (never allocated, or freed since its last allocation), and no bit at
\* index >= N is ever set.
C20_BitSetIffSlotFree ==
    /\ \A index \in 0 .. PoolNumResources - 1 :
           containsBit(bitmap, index) <=> SlotAddress(index) \notin poolHeld
    /\ \A index \in PoolNumResources .. BitCapacity(PoolNumResources) - 1 :
           ~containsBit(bitmap, index)
    /\ \A pointer \in poolHeld :
           \E index \in 0 .. PoolNumResources - 1 : pointer = SlotAddress(index)

\* A slot in the middle of the pool has been freed while the slot before it and a
\* slot after it are held, and a slot freed earlier is free as well
C20_Witness ==
    /\ poolCall.op = "free"
    /\ poolCall.arg = SlotAddress(1)
    /\ poolCall.ret = 1
    /\ containsBit(bitmap, 1)
    /\ SlotAddress(0) \in poolHeld
    /\ SlotAddress(3) \in poolHeld
    /\ containsBit(bitmap, 2)
    /\ ~containsBit(bitmap, 3)

\* The least index of a set bit of `v`, which is not empty
LowestBit(v) == CHOOSE i \in v : \A j \in v : i <= j

\* C21: allocate(slot_size) returns the address of the lowest-indexed free slot
\* and returns NONE if and only if no slot is free; so N allocations after init
\* all succeed with distinct slots, the (N+1)-th returns NONE, and after freeing
\* slots 5 and 3 the next allocate returns slot 3 and leaves slot 5 free.
C21_LowestFreeSlot ==
    (poolCall.op = "allocate" /\ poolCall.arg = PoolResourceSize) =>
        /\ (poolCall.ret = NULL) <=> (poolCall.pre = {})
        /\ poolCall.pre = {} => Cardinality(poolHeld) = PoolNumResources
        /\ poolCall.pre # {} =>
               /\ poolCall.ret = SlotAddress(LowestBit(poolCall.pre))
               /\ bitmap = poolCall.pre \ {LowestBit(poolCall.pre)}
               /\ Cardinality(poolHeld) = PoolNumResources - Cardinality(bitmap)
        /\ poolCall.pre = {3, 5} => (poolCall.ret = SlotAddress(3) /\ bitmap = {5})

\* With every other slot held, slots 5 and 3 were free and allocate returned slot 3
C21_Witness ==
    /\ poolCall.op = "allocate"
    /\ poolCall.arg = PoolResourceSize
    /\ poolCall.pre = {3, 5}
    /\ poolCall.ret = SlotAddress(3)
    /\ containsBit(bitmap, 5)

(***************************************************************************)
(* Variable-size free-list allocator                                       *)
(***************************************************************************)

\* sizeof(MemoryHeader) on an LP64 target: prev, next, size, magic
HeaderSize == 24

\* FreeListAllocator<ConstantAligner<8>>
Alignment == 8

\* sizeof(memory), the limit passed to init
ListLimit == 1024

\* Start addresses passed to init: one aligned, one not
ListStarts == {16384, 16387}

\* Request sizes passed to allocate
ListSizes == {0, 232, 250, 251, 252, 400, 512, 1024}

kMagicValueUsed == 1431520580

kMagicValueFree == 1179796805

kMagicValueFire == 1179210309

kMagicValueWolf == 1464814662

\* MemoryHeader::size and MemoryHeader::magic are uint32_t: every size of the
\* model lies in 0 .. ListLimit, where the conversion from size_t changes nothing

\* ConstantAligner<Alignment>::operator()
ConstantAligner(size) ==
    LET result == (size \div Alignment) + (IF size % Alignment # 0 THEN 1 ELSE 0)
    IN  result * Alignment

\* A FreeList with the memory its headers live in
ListState(m, head, tail, count) == [mem |-> m, head |-> head, tail |-> tail, count |-> count]

\* Store a whole header at `address`
store(m, address, header) ==
    [a \in DOMAIN m \cup {address} |-> IF a = address THEN header ELSE m[a]]

\* The memory once the block of `header` has been merged into the block before
\* it: the bytes of the header stay as they were (magic FREE) but lie in the
\* payload of a free block, where neither the list nor a live pointer leads to
\* them, and `memory` keeps the headers of the blocks only
absorb(m, header) == [a \in DOMAIN m \ {header} |-> m[a]]

\* MemoryHeader::start, which operator() returns
startOf(header) == header + HeaderSize

\* MemoryHeader::writeFreeHeader
writeFreeHeader(m, address, size) ==
    store(m, address, [size |-> size, magic |-> kMagicValueFree, prev |-> NULL, next |-> NULL])

\* A readUsedHeader that checks nothing
readUsedHeaderUnchecked(m, address) ==
    IF address - HeaderSize \notin DOMAIN m THEN NULL ELSE address - HeaderSize

\* A readUsedHeader that checks the magic field only
readUsedHeaderMagicOnly(m, address) ==
    LET header == address - HeaderSize
    IN  IF header \notin DOMAIN m THEN NULL
        ELSE IF m[header].magic # kMagicValueUsed THEN NULL
        ELSE header

\* MemoryHeader::readUsedHeader: the header in front of `address`, NULL if its
\* magic values do not match. Bytes in front of `address` that are no header of
\* a block (payload, or the header of a block merged away, whose magic is FREE)
\* do not carry the three magic values.
readUsedHeader(m, address) ==
    LET header == address - HeaderSize
    IN  IF header \notin DOMAIN m THEN NULL
        ELSE IF m[header].magic # kMagicValueUsed THEN NULL
        ELSE IF m[header].prev # kMagicValueFire THEN NULL
        ELSE IF m[header].next # kMagicValueWolf THEN NULL
        ELSE header

\* MemoryHeader::setFree
setFree(m, header) ==
    [m EXCEPT ![header].magic = kMagicValueFree, ![header].prev = NULL, ![header].next = NULL]

\* MemoryHeader::setUsed
setUsed(m, header) ==
    [m EXCEPT ![header].magic = kMagicValueUsed, ![header].prev = kMagicValueFire,
              ![header].next = kMagicValueWolf]

\* MemoryHeader::isAdjacentTo
isAdjacentTo(m, header, other) == startOf(header) + m[header].size = other

\* LinkedList::enqueue on the FreeList: the block becomes the tail
enqueueBlock(l, block) ==
    LET m1 == [l.mem EXCEPT ![block].prev = l.tail, ![block].next = NULL]
        m2 == IF l.tail = NULL THEN m1 ELSE [m1 EXCEPT ![l.tail].next = block]
    IN  ListState(m2, IF l.head = NULL THEN block ELSE l.head, block, l.count + 1)

\* The first block at or after `node` that sorts after `block` (operator<
\* compares the start addresses), NULL if there is none
RECURSIVE firstAfter(_, _, _)
firstAfter(m, node, block) ==
    IF node = NULL THEN NULL
    ELSE IF startOf(block) < startOf(node) THEN node
    ELSE firstAfter(m, m[node].next, block)

\* LinkedList::insert(block, true): insert in ascending order
insert(l, block) ==
    LET successor == firstAfter(l.mem, l.head, block)
    IN  IF successor = NULL THEN enqueueBlock(l, block)
        ELSE LET before == l.mem[successor].prev
                 m1 == [l.mem EXCEPT ![block].prev = before, ![block].next = successor,
                                     ![successor].prev = block]
                 m2 == IF before = NULL THEN m1 ELSE [m1 EXCEPT ![before].next = block]
             IN  ListState(m2, IF before = NULL THEN block ELSE l.head, l.tail, l.count + 1)

\* LinkedList::remove
remove(l, block) ==
    LET before == l.mem[block].prev
        after == l.mem[block].next
        m1 == IF before = NULL THEN l.mem ELSE [l.mem EXCEPT ![before].next = after]
        m2 == IF after = NULL THEN m1 ELSE [m1 EXCEPT ![after].prev = before]
        m3 == [m2 EXCEPT ![block].prev = NULL, ![block].next = NULL]
    IN  ListState(m3, IF before = NULL THEN after ELSE l.head,
                  IF after = NULL THEN before ELSE l.tail, l.count - 1)

\* LinkedList::first with the predicate of getFreeBlock: header->size >= size
RECURSIVE first(_, _, _)
first(m, node, size) ==
    IF node = NULL THEN NULL
    ELSE IF m[node].size >= size THEN node
    ELSE first(m, m[node].next, size)

\* The first if of insertWithMerge: merge `block` into the block before it when
\* the two are adjacent; `block` is then the merged block
mergeIntoPrev(l, block) ==
    LET before == l.mem[block].prev
        after == l.mem[block].next
    IN  IF before # NULL /\ isAdjacentTo(l.mem, before, block)
        THEN LET m1 == [l.mem EXCEPT
                           ![before].size = @ + HeaderSize + l.mem[block].size,
                           ![before].next = after]
                 m2 == IF after # NULL THEN [m1 EXCEPT ![after].prev = before] ELSE m1
             IN  [block |-> before,
                  list |-> ListState(absorb(m2, block), l.head,
                                     IF after # NULL THEN l.tail ELSE before, l.count - 1)]
        ELSE [block |-> block, list |-> l]

\* A second if of insertWithMerge that adds the payload of the block after
\* `block` and leaves out the header it absorbs
mergeNextDroppingHeader(l, block) ==
    LET after == l.mem[block].next
    IN  IF after # NULL /\ isAdjacentTo(l.mem, block, after)
        THEN LET afterNext == l.mem[after].next
                 m1 == [l.mem EXCEPT ![block].size = @ + l.mem[after].size]
                 m2 == IF afterNext # NULL THEN [m1 EXCEPT ![afterNext].prev = block]
                       ELSE m1
                 m3 == [m2 EXCEPT ![block].next = afterNext]
             IN  ListState(absorb(m3, after), l.head,
                           IF afterNext # NULL THEN l.tail ELSE block, l.count - 1)
        ELSE l

\* The second if of insertWithMerge: merge the block after `block` into it when
\* the two are adjacent
mergeNext(l, block) ==
    LET after == l.mem[block].next
    IN  IF after # NULL /\ isAdjacentTo(l.mem, block, after)
        THEN LET afterNext == l.mem[after].next
                 m1 == [l.mem EXCEPT ![block].size = @ + HeaderSize + l.mem[after].size]
                 m2 == IF afterNext # NULL THEN [m1 EXCEPT ![afterNext].prev = block]
                       ELSE m1
                 m3 == [m2 EXCEPT ![block].next = afterNext]
             IN  ListState(absorb(m3, after), l.head,
                           IF afterNext # NULL THEN l.tail ELSE block, l.count - 1)
        ELSE l

\* An insertWithMerge that does not merge the block with the block after it
insertWithMergeOfPrevOnly(l, block) ==
    The({mergeIntoPrev(l1, block).list : l1 \in {insert(l, block)}})

\* An insertWithMerge that does not merge the block into the block before it
insertWithMergeOfNextOnly(l, block) ==
    The({mergeNext(l1, block) : l1 \in {insert(l, block)}})

\* An insertWithMerge that inserts the block and merges nothing
insertWithoutMerge(l, block) == insert(l, block)

\* FreeList::insertWithMerge
insertWithMerge(l, block) ==
    The({mergeNext(merged.list, merged.block) :
            merged \in {mergeIntoPrev(l1, block) : l1 \in {insert(l, block)}}})

\* removeWithUpdate: the amount of memory the request leaves over in `block`
leftSize(l, block) == l.mem[block].size - l.mem[block].magic

\* A shrink that adds the header of the rest at the end of the free list
shrinkAndEnqueue(l, block) ==
    LET actualSize == l.mem[block].magic
        newBlock == startOf(block) + actualSize
    IN  The({enqueueBlock(l2, newBlock) :
                l2 \in {ListState(writeFreeHeader([l.mem EXCEPT ![block].size = actualSize],
                                                  newBlock, leftSize(l, block) - HeaderSize),
                                  l.head, l.tail, l.count)}})

\* removeWithUpdate: shrink the allocated block, write a new header for the
\* rest of the memory and add it to the free list
shrink(l, block) ==
    LET actualSize == l.mem[block].magic
        newBlock == startOf(block) + actualSize
    IN  The({insert(l2, newBlock) :
                l2 \in {ListState(writeFreeHeader([l.mem EXCEPT ![block].size = actualSize],
                                                  newBlock, leftSize(l, block) - HeaderSize),
                                  l.head, l.tail, l.count)}})

\* A removeWithUpdate that also splits when the memory left is exactly one header
removeWithUpdateAtHeaderSize(l, block) ==
    The({IF leftSize(l1, block) >= HeaderSize THEN shrink(l1, block) ELSE l1 :
            l1 \in {remove(l, block)}})

\* A removeWithUpdate that removes the block and never splits it
removeWithoutUpdate(l, block) == remove(l, block)

\* FreeList::removeWithUpdate
removeWithUpdate(l, block) ==
    The({IF leftSize(l1, block) > HeaderSize THEN shrink(l1, block) ELSE l1 :
            l1 \in {remove(l, block)}})

\* A getFreeBlock whose predicate asks for a block larger than the request
listGetFreeBlockStrictlyLarger(l, size) ==
    The({[header |-> header,
          list |-> IF header # NULL
                   THEN [l EXCEPT !.mem = [l.mem EXCEPT ![header].magic = size]]
                   ELSE l] : header \in {first(l.mem, l.head, size + 1)}})

\* FreeListAllocator::getFreeBlock: the header found, NULL if none, and the
\* memory with the size stored in its magic field
listGetFreeBlock(l, size) ==
    The({[header |-> header,
          list |-> IF header # NULL
                   THEN [l EXCEPT !.mem = [l.mem EXCEPT ![header].magic = size]]
                   ELSE l] : header \in {first(l.mem, l.head, size)}})

\* FreeListAllocator::putFreeBlock
listPutFreeBlock(l, block) == insertWithMerge(l, block)

\* FreeListAllocator::markBlockFree
listMarkBlockFree(l, block) == [l EXCEPT !.mem = setFree(l.mem, block)]

\* A markBlockUsed that leaves the header as removeWithUpdate left it
listMarkBlockUsedWithoutMagic(l, block) == removeWithUpdate(l, block)

\* FreeListAllocator::markBlockUsed
listMarkBlockUsed(l, block) ==
    The({[l1 EXCEPT !.mem = setUsed(l1.mem, block)] : l1 \in {removeWithUpdate(l, block)}})

\* FreeListAllocator::pointer2Block
listPointer2Block(l, pointer) == readUsedHeader(l.mem, pointer)

\* FreeListAllocator::init
listInit(start, limit) ==
    The({enqueueBlock(ListState(writeFreeHeader(<<>>, aligned, limit - HeaderSize),
                                NULL, NULL, 0), aligned) :
            aligned \in {ConstantAligner(start)}})

\* An allocate on the free-list allocator without the guard for size zero
listAllocateWithoutGuard(l, size) ==
    The({IF b.header = NULL THEN [ret |-> NULL, list |-> b.list]
         ELSE [ret |-> startOf(b.header),
               list |-> listMarkBlockUsed(b.list, b.header)] :
            b \in {listGetFreeBlock(l, ConstantAligner(size))}})

\* MemoryAllocatorImp::allocate on the free-list allocator
listAllocate(l, size) ==
    IF size = 0 THEN [ret |-> NULL, list |-> l]
    ELSE The({IF b.header = NULL THEN [ret |-> NULL, list |-> b.list]
              ELSE [ret |-> startOf(b.header),
                    list |-> listMarkBlockUsed(b.list, b.header)] :
                 b \in {listGetFreeBlock(l, ConstantAligner(size))}})

\* MemoryAllocatorImp::free on the free-list allocator
listFree(l, pointer) ==
    IF pointer = NULL THEN [ret |-> TRUE, list |-> l]
    ELSE The({IF block = NULL THEN [ret |-> FALSE, list |-> l]
              ELSE [ret |-> TRUE,
                    list |-> The({listPutFreeBlock(freed, block) :
                                     freed \in {listMarkBlockFree(l, block)}})] :
                 block \in {listPointer2Block(l, pointer)}})

\* The headers of the free list from `node` to the tail
RECURSIVE walk(_, _)
walk(m, node) ==
    IF node = NULL THEN <<>>
    ELSE <<[address |-> node, size |-> m[node].size, magic |-> m[node].magic,
            prev |-> m[node].prev, next |-> m[node].next]>> \o walk(m, m[node].next)

\* The free list as a caller of forEach, peekHead, peekTail and getCount sees it
Snapshot(l) == [list |-> walk(l.mem, l.head), head |-> l.head, tail |-> l.tail,
                count |-> l.count]

\* The free list of the current state
CurrentList == ListState(memory, listHead, listTail, listCount)

\* The calls of the coalesce scenario: allocate 250, 251 and 252 bytes, then free
\* the second, the third, the first and the second of the pointers returned
ScriptCalls ==
    <<[op |-> "allocate", arg |-> 250], [op |-> "allocate", arg |-> 251],
      [op |-> "allocate", arg |-> 252], [op |-> "free", arg |-> 2],
      [op |-> "free", arg |-> 3], [op |-> "free", arg |-> 1], [op |-> "free", arg |-> 2]>>

OffScript == [step |-> -1, ptrs |-> <<>>]

\* The scenario after a call op(arg) that returned ret
NextScript(script, op, arg, ret) ==
    IF script.step >= 0 /\ script.step < Len(ScriptCalls)
    THEN LET call == ScriptCalls[script.step + 1]
         IN  IF call.op = op /\ op = "allocate" /\ call.arg = arg
             THEN [step |-> script.step + 1, ptrs |-> Append(script.ptrs, ret)]
             ELSE IF call.op = op /\ op = "free" /\ script.ptrs[call.arg] = arg
             THEN [step |-> script.step + 1, ptrs |-> script.ptrs]
             ELSE OffScript
    ELSE OffScript

\* The free list before init
NoSnapshot == Snapshot(ListState(<<>>, NULL, NULL, 0))

\* The call op(arg) comes right after the successful allocate that returned arg
IsRoundTrip(call, op, arg) ==
    op = "free" /\ arg # NULL /\ call.op = "allocate" /\ call.ret = arg

ListInit ==
    /\ \E start \in ListStarts :
           LET l == listInit(start, ListLimit)
           IN  /\ memory = l.mem
               /\ listHead = l.head
               /\ listTail = l.tail
               /\ listCount = l.count
               /\ listStart = start
    /\ listHeld = {}
    /\ listCall = [op |-> "init", arg |-> ListLimit, ret |-> 1, live |-> TRUE,
                   pre |-> NoSnapshot, roundTrip |-> FALSE, origin |-> NoSnapshot,
                   freed |-> {}]
    /\ listScript = [step |-> 0, ptrs |-> <<>>]
    /\ tree = {}
    /\ bfailed = FALSE
    /\ bheld = {}
    /\ boverlap = FALSE
    /\ bcall = NoCall
    /\ AlignerUnused
    /\ FastUnused
    /\ PoolUnused

\* The state after a public call that left the free list `l`. The record of the
\* call keeps the free list before the call (pre) and, for a free that comes right
\* after the allocate that returned its pointer, the free list before that
\* allocate (origin), and the pointers freed since the last call of allocate
\* (freed).
ListCalled(l, held, op, arg, ret, live) ==
    /\ memory' = l.mem
    /\ listHead' = l.head
    /\ listTail' = l.tail
    /\ listCount' = l.count
    /\ listStart' = listStart
    /\ listHeld' = held
    /\ listCall' = [op |-> op, arg |-> arg, ret |-> ret, live |-> live,
                    pre |-> Snapshot(CurrentList),
                    roundTrip |-> IsRoundTrip(listCall, op, arg),
                    origin |-> IF IsRoundTrip(listCall, op, arg) THEN listCall.pre
                               ELSE NoSnapshot,
                    freed |-> IF op = "allocate" THEN {}
                              ELSE IF ret = 1 /\ arg # NULL THEN listCall.freed \cup {arg}
                              ELSE listCall.freed]
    /\ listScript' = NextScript(listScript, op, arg, ret)
    /\ UNCHANGED <<bvars, fvars, pvars, avars>>

\* A call of allocate(size) by the caller
ListAllocate(size) ==
    \E r \in {listAllocate(CurrentList, size)} :
        ListCalled(r.list, IF r.ret # NULL THEN listHeld \cup {r.ret} ELSE listHeld,
                   "allocate", size, r.ret, TRUE)

\* A call of free(pointer) by the caller, for a pointer it holds
ListFree(pointer) ==
    \E r \in {listFree(CurrentList, pointer)} :
        ListCalled(r.list, IF r.ret THEN listHeld \ {pointer} ELSE listHeld,
                   "free", pointer, IF r.ret THEN 1 ELSE 0, TRUE)

\* A call of free(pointer) by the caller, for a pointer it does not hold: one it
\* has freed already, or one it has never been given
ListFreeAgain(pointer) ==
    /\ pointer \notin listHeld
    /\ \E r \in {listFree(CurrentList, pointer)} :
           ListCalled(r.list, listHeld, "free", pointer, IF r.ret THEN 1 ELSE 0, FALSE)

\* The pointers that three allocations of 256 bytes return right after init
ListPointers ==
    {ConstantAligner(listStart) + HeaderSize + k * (256 + HeaderSize) : k \in 0 .. 2}

ListAllocateAny == \E size \in ListSizes : ListAllocate(size)

ListFreeHeld == \E pointer \in listHeld : ListFree(pointer)

ListFreeStale == \E pointer \in ListPointers \cup listCall.freed : ListFreeAgain(pointer)

ListNext == ListAllocateAny \/ ListFreeHeld

ListMisuseNext == ListAllocateAny \/ ListFreeHeld \/ ListFreeStale

\* The value that setUsed writes to `field` of a used header
UsedValue(field) ==
    IF field = "magic" THEN kMagicValueUsed
    ELSE IF field = "prev" THEN kMagicValueFire
    ELSE kMagicValueWolf

\* The fields of a header that readUsedHeader checks
CheckedFields == {"magic", "prev", "next"}

\* The header in front of `pointer` does not pass the checks of readUsedHeader
Corrupted(m, pointer) ==
    \E field \in CheckedFields : m[pointer - HeaderSize][field] # UsedValue(field)

\* The caller overwrites one checked field of the header in front of a pointer it
\* holds with zero, as the test does with header->magic, header->prev and
\* header->next, each written back before the next is overwritten: one field of
\* one header is wrong at a time
ListCorrupt(pointer, field) ==
    /\ pointer \in listHeld
    /\ \A other \in listHeld : ~Corrupted(memory, other)
    /\ memory' = [memory EXCEPT ![pointer - HeaderSize][field] = 0]
    /\ UNCHANGED <<listHead, listTail, listCount, listStart, listHeld, listCall, listScript>>
    /\ UNCHANGED <<bvars, fvars, pvars, avars>>

\* The caller writes the value of a used header back to a field it has overwritten
ListRepair(pointer, field) ==
    /\ pointer \in listHeld
    /\ memory[pointer - HeaderSize][field] # UsedValue(field)
    /\ memory' = [memory EXCEPT ![pointer - HeaderSize][field] = UsedValue(field)]
    /\ UNCHANGED <<listHead, listTail, listCount, listStart, listHeld, listCall, listScript>>
    /\ UNCHANGED <<bvars, fvars, pvars, avars>>

ListCorruptHeld == \E pointer \in listHeld : \E field \in CheckedFields : ListCorrupt(pointer, field)

ListRepairHeld == \E pointer \in listHeld : \E field \in CheckedFields : ListRepair(pointer, field)

ListCorruptNext == ListAllocateAny \/ ListFreeHeld \/ ListCorruptHeld \/ ListRepairHeld

\* The free-list allocator used as its contract asks
ListSpec == ListInit /\ [][ListNext]_vars

\* The free-list allocator with frees of pointers that are no longer live
ListMisuseSpec == ListInit /\ [][ListMisuseNext]_vars

\* The free-list allocator with a caller that overwrites the headers of its blocks
ListCorruptSpec == ListInit /\ [][ListCorruptNext]_vars

(***************************************************************************)
(* Properties of the variable-size free-list allocator                     *)
(***************************************************************************)

\* The free list of the current state as a caller sees it
ListNow == Snapshot(CurrentList)

\* C7: a successful p = allocate(size) followed at once by free(p) restores the
\* free list: the same headers at the same addresses with the same sizes and
\* links in the same order, the same count, head and tail.
C7_RoundTripRestoresFreeList ==
    listCall.roundTrip => (listCall.ret = 1 /\ ListNow = listCall.origin)

\* A round trip whose allocate took a whole block out of a list of several blocks
C7_Witness ==
    /\ listCall.roundTrip
    /\ listCall.origin.count >= 2
    /\ listCall.pre.count < listCall.origin.count
    /\ ListNow = listCall.origin

\* The used blocks of the scenario, once its three allocations are done
ScriptBlocksUsed ==
    /\ Len(listScript.ptrs) = 3
    /\ \A i \in 1 .. 3 :
           /\ listScript.ptrs[i] # NULL
           /\ listScript.ptrs[i] - HeaderSize \in DOMAIN memory
           /\ memory[listScript.ptrs[i] - HeaderSize].size = 256
           /\ memory[listScript.ptrs[i] - HeaderSize].magic = kMagicValueUsed
    /\ Cardinality({listScript.ptrs[i] : i \in 1 .. 3}) = 3

\* The free list has `n` headers
ListLength(n) == listCount = n /\ Len(ListNow.list) = n

\* The free list is a single header that spans ListLimit - HeaderSize bytes
SingleFreeHeader ==
    /\ ListLength(1)
    /\ ListNow.list[1].size = ListLimit - HeaderSize
    /\ listHead = listTail

\* C8 as stated: in a 1024-byte region with the 8-byte aligner, allocating 250,
\* 251 and 252 bytes yields three used blocks of payload size 256 and a free list
\* of length 1; freeing the middle block then gives length 2, freeing the third
\* length 1, freeing the first length 2, and freeing the second length 1 with a
\* single free header that spans region_size - header_size bytes.
C8_CoalesceScenarioAsStated ==
    /\ listScript.step = 3 => (ScriptBlocksUsed /\ ListLength(1))
    /\ listScript.step = 4 => ListLength(2)
    /\ listScript.step = 5 => ListLength(1)
    /\ listScript.step = 6 => ListLength(2)
    /\ listScript.step = 7 => SingleFreeHeader

\* C8, amended: as stated up to the free of the third block; freeing the first
\* block then gives length 1 already, a single free header that spans
\* region_size - header_size bytes (the first block is adjacent to the free block
\* made of the middle, the third and the tail), and freeing the second again is
\* refused and leaves that header as it is.
C8_CoalesceScenario ==
    /\ listScript.step = 3 => (ScriptBlocksUsed /\ ListLength(1))
    /\ listScript.step = 4 => (listCall.ret = 1 /\ ListLength(2))
    /\ listScript.step = 5 => (listCall.ret = 1 /\ ListLength(1))
    /\ listScript.step = 6 => (listCall.ret = 1 /\ SingleFreeHeader)
    /\ listScript.step = 7 => (listCall.ret = 0 /\ SingleFreeHeader)

\* The scenario has been run to its end
C8_Witness == listScript.step = 7 /\ listCall.op = "free" /\ ~listCall.live

\* The size, before the last call, of the free block whose payload is `pointer`
SizeBefore(pointer) ==
    LET taken == {i \in 1 .. Len(listCall.pre.list) :
                     listCall.pre.list[i].address = pointer - HeaderSize}
    IN  IF taken = {} THEN -1 ELSE listCall.pre.list[CHOOSE i \in taken : TRUE].size

\* The last call was a successful allocate from a free block that had at most
\* HeaderSize bytes more than the aligned request
TookWholeBlock ==
    /\ listCall.op = "allocate"
    /\ listCall.ret # NULL
    /\ SizeBefore(listCall.ret) - ConstantAligner(listCall.arg) <= HeaderSize

\* C9 as stated: when allocate takes a free block whose leftover after the
\* aligned request is at most header_size, the free list is as long after the
\* allocate as before it.
C9_LengthUnchangedAsStated ==
    TookWholeBlock => ListLength(listCall.pre.count)

\* C9, amended: when allocate takes a free block whose leftover after the
\* aligned request is at most header_size, the block leaves the free list whole
\* and no header is written: the free list is one shorter after the allocate than
\* before it, and the used block keeps the size of the free block.
C9_WholeBlockLeavesList ==
    TookWholeBlock =>
        /\ ListLength(listCall.pre.count - 1)
        /\ Len(listCall.pre.list) = listCall.pre.count
        /\ memory[listCall.ret - HeaderSize].size = SizeBefore(listCall.ret)

\* An allocate from a free block with exactly HeaderSize bytes more than asked
C9_Witness ==
    /\ TookWholeBlock
    /\ SizeBefore(listCall.ret) - ConstantAligner(listCall.arg) = HeaderSize
    /\ listCall.pre.count >= 2

\* The headers of the blocks of the region: those of the free list and those in
\* front of the pointers held by the caller
BlockHeaders ==
    {ListNow.list[i].address : i \in 1 .. Len(ListNow.list)}
        \cup {pointer - HeaderSize : pointer \in listHeld}

\* The address right after the payload of the block of `header`
BlockEnd(header) == startOf(header) + memory[header].size

RECURSIVE SumOfBlocks(_)
SumOfBlocks(headers) ==
    IF headers = {} THEN 0
    ELSE LET header == CHOOSE h \in headers : TRUE
         IN  HeaderSize + memory[header].size + SumOfBlocks(headers \ {header})

\* C10: the headers, free and used, with their payloads tile the region
\* [start, start + limit): a block starts at start, each block starts where the
\* block before it ends, the last one ends at start + limit, no two blocks
\* overlap, and the sum of header_size + size over all headers is limit.
C10_BlocksTileRegion ==
    /\ listStart \in BlockHeaders
    /\ \A h \in BlockHeaders : BlockEnd(h) = listStart + ListLimit \/ BlockEnd(h) \in BlockHeaders
    /\ \A h1 \in BlockHeaders : \A h2 \in BlockHeaders :
           h1 # h2 => (BlockEnd(h1) <= h2 \/ BlockEnd(h2) <= h1)
    /\ SumOfBlocks(BlockHeaders) = ListLimit


\* The headers on the free list
FreeHeaders == {ListNow.list[i].address : i \in 1 .. Len(ListNow.list)}

\* C11: after every allocate and every free of a live pointer, no two free
\* headers are address-adjacent: no free header's payload ends exactly where
\* another free header starts, be it the remainder header of a split or a block
\* put back by free.
C11_NoAdjacentFreeHeaders ==
    \A h1 \in FreeHeaders : \A h2 \in FreeHeaders : BlockEnd(h1) # h2

\* A free of a block that lay between two free blocks and was merged with both
C11_Witness ==
    /\ listCall.op = "free"
    /\ listCall.ret = 1
    /\ listCall.pre.count >= 2
    /\ listCount = listCall.pre.count - 1

\* The headers of the free list from `node` back to the head, following prev
RECURSIVE walkBack(_, _)
walkBack(m, node) ==
    IF node = NULL THEN <<>>
    ELSE <<node>> \o walkBack(m, m[node].prev)

\* The sequence `s` in reverse
Reverse(s) == [i \in 1 .. Len(s) |-> s[Len(s) + 1 - i]]

\* C12: in every reachable state the free list, walked from head to tail, visits
\* headers in strictly ascending address order, and walking it backwards from
\* tail via prev visits the same headers in reverse; count is the number of
\* headers visited, and head.prev and tail.next are null.
C12_ListSortedBothWays ==
    LET forward == [i \in 1 .. Len(ListNow.list) |-> ListNow.list[i].address]
    IN  /\ \A i \in 1 .. Len(forward) - 1 : forward[i] < forward[i + 1]
        /\ walkBack(memory, listTail) = Reverse(forward)
        /\ listCount = Len(forward)
        /\ (listHead = NULL) = (forward = <<>>)
        /\ (listTail = NULL) = (forward = <<>>)
        /\ listHead # NULL => memory[listHead].prev = NULL
        /\ listTail # NULL => memory[listTail].next = NULL

\* An allocate that split the first of several free blocks: the header of the
\* remainder went between the blocks of the list
C12_Witness ==
    /\ listCall.op = "allocate"
    /\ listCall.ret # NULL
    /\ listCall.pre.count >= 2
    /\ listCall.ret - HeaderSize = listCall.pre.head
    /\ listCount = listCall.pre.count
    /\ listHead = listCall.ret + memory[listCall.ret - HeaderSize].size

\* C13: between public calls, every block held by a caller has a header with
\* magic = USED, prev = FIRE and next = WOLF and is not on the free list, and
\* every header on the free list has magic = FREE: the request size that
\* getFreeBlock stores in magic is gone when allocate returns.
C13_HeaderMagics ==
    /\ \A pointer \in listHeld :
           /\ pointer - HeaderSize \in DOMAIN memory
           /\ memory[pointer - HeaderSize].magic = kMagicValueUsed
           /\ memory[pointer - HeaderSize].prev = kMagicValueFire
           /\ memory[pointer - HeaderSize].next = kMagicValueWolf
           /\ pointer - HeaderSize \notin FreeHeaders
    /\ \A h \in FreeHeaders : memory[h].magic = kMagicValueFree

\* An allocate that split a free block while the caller held another block
C13_Witness ==
    /\ listCall.op = "allocate"
    /\ listCall.ret # NULL
    /\ Cardinality(listHeld) >= 2
    /\ listCount = listCall.pre.count
    /\ listCount >= 1

\* The free list and every header are the same after the step as before it
ListUnchanged ==
    /\ memory' = memory
    /\ listHead' = listHead
    /\ listTail' = listTail
    /\ listCount' = listCount

\* C14: free(p) returns err and leaves the free list and every header unchanged
\* whenever the header in front of p fails any one of the three checks
\* magic == USED, prev == FIRE, next == WOLF.
C14_CorruptedHeaderRejected ==
    [][\A pointer \in listHeld :
           (Corrupted(memory, pointer) /\ ListFree(pointer)) =>
               (listCall'.ret = 0 /\ ListUnchanged)]_vars

\* A free refused for a header whose magic and prev are right and whose next is
\* not, while the free list holds a block the header is adjacent to
C14_Witness ==
    /\ listCall.op = "free"
    /\ listCall.ret = 0
    /\ listCall.arg \in listHeld
    /\ memory[listCall.arg - HeaderSize].magic = kMagicValueUsed
    /\ memory[listCall.arg - HeaderSize].prev = kMagicValueFire
    /\ memory[listCall.arg - HeaderSize].next = 0
    /\ BlockEnd(listCall.arg - HeaderSize) \in FreeHeaders

\* C15: freeing the same pointer twice with no allocate in between makes the
\* second free return err and leaves the free list unchanged, whether or not the
\* first free coalesced the block into a neighbour.
C15_DoubleFreeRejected ==
    (listCall.op = "free" /\ ~listCall.live /\ listCall.arg \in listCall.freed) =>
        (listCall.ret = 0 /\ ListNow = listCall.pre)

\* A second free of a block that the first free merged into the block before it
C15_Witness ==
    /\ listCall.op = "free"
    /\ ~listCall.live
    /\ listCall.arg \in listCall.freed
    /\ listCall.ret = 0
    /\ listCall.arg - HeaderSize \notin FreeHeaders
    /\ \E h \in FreeHeaders : h < listCall.arg /\ listCall.arg < BlockEnd(h)

\* The payload [pointer, pointer + header.size) lies inside the region that init
\* was given
PayloadInRegion(pointer) ==
    /\ listStart <= pointer
    /\ pointer + memory[pointer - HeaderSize].size <= listStart + ListLimit

\* C16: after init(start, limit) with any start address, aligned per the
\* configured aligner or not, every payload range [p, p + header.size) returned
\* by allocate lies fully inside [start, start + limit).
C16_PayloadsInsideRegion == \A pointer \in listHeld : PayloadInRegion(pointer)

\* The list of headers from head to tail is in ascending order, tail and the
\* prev links lead back over the same headers, and count is their number
LinksConsistent(m, head, tail, count) ==
    LET forward == [i \in 1 .. Len(walk(m, head)) |-> walk(m, head)[i].address]
    IN  /\ \A i \in 1 .. Len(forward) - 1 : forward[i] < forward[i + 1]
        /\ (tail = NULL) = (forward = <<>>)
        /\ tail # NULL => tail = forward[Len(forward)]
        /\ walkBack(m, tail) = Reverse(forward)
        /\ count = Len(forward)

\* The free headers of the current state that end where `header` starts
FreeBefore(header) == {h \in FreeHeaders : BlockEnd(h) = header}

\* The free headers of the current state that start where the block of `header`
\* ends
FreeAfter(header) == {h \in FreeHeaders : BlockEnd(header) = h}

RECURSIVE SumOfPayloads(_)
SumOfPayloads(headers) ==
    IF headers = {} THEN 0
    ELSE LET header == CHOOSE h \in headers : TRUE
         IN  memory[header].size + SumOfPayloads(headers \ {header})

\* C31: free(p) of a live block changes the free-list count by +1 minus the
\* number of its address-adjacent free neighbours (0, 1 or 2); the surviving
\* header is the lowest-addressed of the merged blocks, its size is the sum of
\* the merged payload sizes plus header_size per absorbed header, and the tail
\* pointer and the prev/next links of the list stay consistent.
C31_FreeMergesNeighbours ==
    [][(listCall'.op = "free" /\ listCall'.live /\ listCall'.arg # NULL
            /\ listCall'.ret = 1)
        => LET block == listCall'.arg - HeaderSize
               merged == FreeBefore(block) \cup {block} \cup FreeAfter(block)
               neighbours == Cardinality(merged) - 1
               survivor == CHOOSE h \in merged : \A other \in merged : h <= other
           IN  /\ neighbours \in 0 .. 2
               /\ listCount' = listCount + 1 - neighbours
               /\ survivor \in DOMAIN memory'
               /\ \A h \in merged \ {survivor} : h \notin DOMAIN memory'
               /\ \E i \in 1 .. Len(walk(memory', listHead')) :
                      walk(memory', listHead')[i].address = survivor
               /\ memory'[survivor].size = SumOfPayloads(merged) + HeaderSize * neighbours
               /\ memory'[survivor].magic = kMagicValueFree
               /\ LinksConsistent(memory', listHead', listTail', listCount')]_vars

\* A free of a block between two free blocks: its header and the header after
\* it are gone, and the block before it, the survivor, is the tail of the list
C31_Witness ==
    /\ listCall.op = "free"
    /\ listCall.live
    /\ listCall.ret = 1
    /\ listCall.arg # NULL
    /\ listCount = listCall.pre.count - 1
    /\ listCall.arg - HeaderSize \notin DOMAIN memory
    /\ listCall.pre.tail \notin DOMAIN memory
    /\ listTail # NULL

\* The addresses of the headers of the free list, from head to tail
ListAddresses(m, head) == [i \in 1 .. Len(walk(m, head)) |-> walk(m, head)[i].address]

\* A sequence with its i-th element replaced
ReplaceAt(seq, i, value) == [k \in 1 .. Len(seq) |-> IF k = i THEN value ELSE seq[k]]

\* A sequence without its i-th element
RemoveAt(seq, i) == [k \in 1 .. (Len(seq) - 1) |-> IF k < i THEN seq[k] ELSE seq[k + 1]]

\* A step of a successful allocate splits the block it takes when more than a
\* header is left of it, and hands it out whole otherwise
AllocateSplitsOrTakesWhole ==
    (listCall'.op = "allocate" /\ listCall'.ret # NULL)
    => LET block == listCall'.ret - HeaderSize
           a == ConstantAligner(listCall'.arg)
           S == memory[block].size
           before == ListAddresses(memory, listHead)
           place == CHOOSE i \in 1 .. Len(before) : before[i] = block
           rest == listCall'.ret + a
       IN  /\ \E i \in 1 .. Len(before) : before[i] = block
           /\ S >= a
           /\ memory'[block].size >= a
           /\ memory'[block].size <= a + HeaderSize
           /\ IF S - a > HeaderSize
              THEN /\ memory'[block].size = a
                   /\ DOMAIN memory' = DOMAIN memory \cup {rest}
                   /\ rest \notin DOMAIN memory
                   /\ memory'[rest].size = S - a - HeaderSize
                   /\ memory'[rest].magic = kMagicValueFree
                   /\ ListAddresses(memory', listHead') = ReplaceAt(before, place, rest)
                   /\ listCount' = listCount
              ELSE /\ memory'[block].size = S
                   /\ DOMAIN memory' = DOMAIN memory
                   /\ ListAddresses(memory', listHead') = RemoveAt(before, place)
                   /\ listCount' = listCount - 1

\* C34: a successful allocate with aligned size a takes a free block of size
\* S >= a; if S - a > header_size the used block gets size exactly a and a new
\* free header of size S - a - header_size is written right after its payload
\* and takes the block's place in the list; otherwise no header is written and
\* the used block keeps size S; always a <= used.size <= a + header_size.
C34_SplitOrWholeBlock == [][AllocateSplitsOrTakesWhole]_vars

\* An allocate that split a block which was not the head of the free list: the
\* header of the rest stands where the block stood, after the head
C34_Witness ==
    /\ listCall.op = "allocate"
    /\ listCall.ret # NULL
    /\ listCall.pre.count >= 2
    /\ listCall.ret - HeaderSize # listCall.pre.head
    /\ memory[listCall.ret - HeaderSize].size = ConstantAligner(listCall.arg)
    /\ listCount = listCall.pre.count
    /\ listHead = listCall.pre.head
    /\ listTail = listCall.ret + ConstantAligner(listCall.arg)

\* The free headers of the current state that can hold `size` bytes
LargeEnough(size) == {h \in FreeHeaders : memory[h].size >= size}

\* The allocate of this step is served from the lowest-addressed free header
\* that is large enough for the aligned size, and fails only if there is none
FirstFit ==
    LET fit == LargeEnough(ConstantAligner(listCall'.arg))
    IN  /\ (listCall'.ret = NULL) = (fit = {})
        /\ listCall'.ret # NULL =>
               /\ listCall'.ret - HeaderSize \in fit
               /\ \A h \in fit : listCall'.ret - HeaderSize <= h

\* C35 as stated: allocate(size) serves the request from the lowest-addressed
\* free header whose size is >= Aligner(size), and returns NULL if and only if no
\* free header is that large.
C35_FirstFitForEverySize == [][listCall'.op = "allocate" => FirstFit]_vars

\* C35 amended: allocate(size) with size >= 1 serves the request from the
\* lowest-addressed free header whose size is >= Aligner(size), and returns NULL
\* if and only if no free header is that large, even when the free headers
\* together hold more than the request; allocate(0) returns NULL whatever the
\* free list holds.
C35_FirstFit ==
    [][listCall'.op = "allocate" =>
           IF listCall'.arg >= 1 THEN FirstFit ELSE listCall'.ret = NULL]_vars

\* An allocate was refused although the free headers together hold more than
\* the aligned size
C35_Witness ==
    /\ listCall.op = "allocate"
    /\ listCall.arg >= 1
    /\ listCall.ret = NULL
    /\ listCount >= 2
    /\ SumOfPayloads(FreeHeaders) >= ConstantAligner(listCall.arg)

(***************************************************************************)
(* The four engines behind MemoryAllocatorImp                              *)
(***************************************************************************)

\* A call of free(nullptr) by the caller of each engine
BuddyFreeNull == BuddyFreeForeign(NULL)

FastFreeNull == FastFree(NULL)

ListFreeNull == ListFree(NULL)

PoolFreeNull == PoolFree(NULL)

\* The allocator has been initialized: a call on it is on record
BuddyInUse == bcall.op # "none"

FastInUse == fastCall.op # "none"

ListInUse == listCall.op # "none"

PoolInUse == poolCall.op # "none"

\* One of the four allocators is constructed and initialized
EngineInit == BuddyInit \/ FastInit \/ ListInit \/ PoolInit

\* The caller allocates, frees what it holds and frees nullptr, on the allocator
\* that was initialized
EngineNext ==
    \/ BuddyInUse /\ BuddyAllocateAny
    \/ BuddyInUse /\ BuddyFreeHeld
    \/ BuddyInUse /\ BuddyFreeNull
    \/ FastInUse /\ FastAllocateAny
    \/ FastInUse /\ FastFreeHeld
    \/ FastInUse /\ FastFreeNull
    \/ ListInUse /\ ListAllocateAny
    \/ ListInUse /\ ListFreeHeld
    \/ ListInUse /\ ListFreeNull
    \/ PoolInUse /\ PoolAllocateAny
    \/ PoolInUse /\ PoolFreeHeld
    \/ PoolInUse /\ PoolFreeNull

\* Any one of the engines, used as its contract asks
EngineSpec == EngineInit /\ [][EngineNext]_vars

\* The state of each engine is the same after the step as before it
BuddyUnchanged == tree' = tree /\ bfailed' = bfailed

FastUnchanged == fastFreeList' = fastFreeList

PoolUnchanged == bitmap' = bitmap

\* C17: on every engine, allocate(0) returns NONE and leaves the allocator state
\* unchanged.
C17_AllocateZero ==
    [][/\ (BuddyInUse /\ BuddyAllocate(0)) => (bcall'.ret = NULL /\ BuddyUnchanged)
       /\ (FastInUse /\ FastAllocate(0)) => (fastCall'.ret = NULL /\ FastUnchanged)
       /\ (ListInUse /\ ListAllocate(0)) => (listCall'.ret = NULL /\ ListUnchanged)
       /\ (PoolInUse /\ PoolAllocate(0)) => (poolCall'.ret = NULL /\ PoolUnchanged)]_vars

\* allocate(0) on a free-list allocator whose first free block could serve it
C17_Witness ==
    /\ listCall.op = "allocate"
    /\ listCall.arg = 0
    /\ listCall.ret = NULL
    /\ listCount >= 2
    /\ listHeld # {}

\* C18: on every engine, free(NONE) returns ok and leaves the allocator state
\* unchanged.
C18_FreeNull ==
    [][/\ (BuddyInUse /\ BuddyFreeNull) => (bcall'.ret = 1 /\ BuddyUnchanged)
       /\ (FastInUse /\ FastFreeNull) => (fastCall'.ret = 1 /\ FastUnchanged)
       /\ (ListInUse /\ ListFreeNull) => (listCall'.ret = 1 /\ ListUnchanged)
       /\ (PoolInUse /\ PoolFreeNull) => (poolCall'.ret = 1 /\ PoolUnchanged)]_vars

\* free(nullptr) on a bitmap pool with slots held
C18_Witness ==
    /\ poolCall.op = "free"
    /\ poolCall.arg = NULL
    /\ poolCall.ret = 1
    /\ Cardinality(poolHeld) >= 2
    /\ bitmap # {}

\* C19: on every engine, whenever allocate returns NONE because no block can
\* serve the request, the engine state is unchanged: no bitmap bit, no free-list
\* link, size or magic field and no buddy tree bit differs from before the call.
C19_FailedAllocateChangesNothing ==
    [][/\ \A size \in BuddySizes \ {0} :
              (BuddyInUse /\ BuddyAllocate(size) /\ bcall'.ret = NULL /\ ~bfailed') => BuddyUnchanged
       /\ \A size \in FastSizes \ {0} :
              (FastInUse /\ FastAllocate(size) /\ fastCall'.ret = NULL) => FastUnchanged
       /\ \A size \in ListSizes \ {0} :
              (ListInUse /\ ListAllocate(size) /\ listCall'.ret = NULL) => ListUnchanged
       /\ \A size \in PoolSizes \ {0} :
              (PoolInUse /\ PoolAllocate(size) /\ poolCall'.ret = NULL) => PoolUnchanged]_vars

\* A request that the buddy allocator could not serve although blocks of lower
\* orders were free and the caller held a block
C19_Witness ==
    /\ bcall.op = "allocate"
    /\ bcall.arg # 0
    /\ bcall.arg <= MaxBlockSize
    /\ bcall.ret = NULL
    /\ ~bfailed
    /\ ~boverlap
    /\ bheld # {}
    /\ Cardinality(tree) >= 2

\* C24: on both fixed-size pools, allocate(size) with size # slot_size returns
\* NONE even when free slots exist, and leaves the bitmap / free list unchanged.
C24_SizeMismatchRejected ==
    /\ (fastCall.op = "allocate" /\ fastCall.arg # ResourceSize) =>
           (fastCall.ret = NULL /\ fastFreeList = fastCall.pre)
    /\ (poolCall.op = "allocate" /\ poolCall.arg # PoolResourceSize) =>
           (poolCall.ret = NULL /\ bitmap = poolCall.pre)

\* An allocate of half a slot on a bitmap pool with free and held slots
C24_Witness ==
    /\ poolCall.op = "allocate"
    /\ poolCall.arg = 4
    /\ poolCall.ret = NULL
    /\ bitmap # {}
    /\ poolHeld # {}

(***************************************************************************)
(* Aligners                                                                *)
(***************************************************************************)

\* The largest size passed to an aligner
MaxAlignSize == 20

\* Sizes passed to the aligners
AlignSizes == 1 .. MaxAlignSize

\* The width of unsigned long, the argument type of __builtin_clzl, in the
\* builds of the library: 32 bits (ILP32) or 64 bits (LP64)
LongBits == {32, 64}

\* The values an expression with undefined behaviour may yield
UndefinedValues == 0 .. (2 * MaxAlignSize)

\* __builtin_clzl(x) for x > 0: the number of leading zero bits of an unsigned
\* long
clzl(x, long) == long - 1 - MSBFinder(x)

\* 1 << count on int: defined for a count from 0 to 30, undefined behaviour for
\* a negative count and for a count that reaches the sign bit or the width
ShiftLeftOne(count) ==
    IF count \in 0 .. 30 THEN {PowerOf2(count)} ELSE UndefinedValues

\* NextPowerOfTwoAligner::operator(): the values the call may return
NextPowerOfTwoAligner(size, long) ==
    IF size = 1 THEN {1}
    ELSE IF size = 0 THEN ShiftLeftOne(32)
    ELSE ShiftLeftOne(32 - clzl(size - 1, long))

\* The library is built for one width of long; no aligner has been called
AlignerInit ==
    /\ \E long \in LongBits :
           acall = [op |-> "build", arg |-> NULL, ret |-> NULL, long |-> long]
    /\ tree = {}
    /\ bfailed = FALSE
    /\ bheld = {}
    /\ boverlap = FALSE
    /\ bcall = NoCall
    /\ FastUnused
    /\ ListUnused
    /\ PoolUnused

\* A call of aligner(size) that returned ret
AlignerCalled(aligner, size, ret) ==
    /\ acall' = [op |-> aligner, arg |-> size, ret |-> ret, long |-> acall.long]
    /\ UNCHANGED <<bvars, fvars, lvars, pvars>>

AlignConstant ==
    \E size \in AlignSizes : AlignerCalled("ConstantAligner", size, ConstantAligner(size))

AlignNull ==
    \E size \in AlignSizes : AlignerCalled("NullAligner", size, NullAligner(size))

AlignNextPowerOfTwo ==
    \E size \in AlignSizes : \E ret \in NextPowerOfTwoAligner(size, acall.long) :
        AlignerCalled("NextPowerOfTwoAligner", size, ret)

AlignerNext == AlignConstant \/ AlignNull \/ AlignNextPowerOfTwo

\* The aligners called on their own
AlignerSpec == AlignerInit /\ [][AlignerNext]_vars

(***************************************************************************)
(* Properties of the aligners                                              *)
(***************************************************************************)

\* The smallest multiple of k that is >= size
SmallestMultiple(k, size) ==
    CHOOSE m \in size .. (size + k) : m % k = 0 /\ \A n \in size .. (m - 1) : n % k # 0

\* The smallest power of two that is >= size
SmallestPowerOfTwo(size) ==
    CHOOSE m \in {PowerOf2(e) : e \in 0 .. 30} :
        m >= size /\ \A e \in 0 .. 30 : PowerOf2(e) >= size => PowerOf2(e) >= m

\* C32: for every size >= 1 the result of an aligner is >= size;
\* ConstantAligner<k>(size) is the smallest multiple of k that is >= size,
\* NullAligner(size) = size, and NextPowerOfTwoAligner(size) is the smallest
\* power of two >= size (1 for size 1, size itself for a power of two).
C32_AlignersRoundUp ==
    (acall.op \in {"ConstantAligner", "NullAligner", "NextPowerOfTwoAligner"}
        /\ acall.arg >= 1)
    => /\ acall.ret >= acall.arg
       /\ acall.op = "ConstantAligner" => acall.ret = SmallestMultiple(Alignment, acall.arg)
       /\ acall.op = "NullAligner" => acall.ret = acall.arg
       /\ acall.op = "NextPowerOfTwoAligner" => acall.ret = SmallestPowerOfTwo(acall.arg)

====
